---- MODULE Spec2Model ----
(***************************************************************************)
(* Model of the Fibonacci calculation core of FibFastDoubling:             *)
(*   internal/fibonacci/calculator.go   facade, lookup table, pools        *)
(*   internal/fibonacci/fastdoubling.go OptimizedFastDoubling.CalculateCore*)
(*   internal/fibonacci/matrix.go       MatrixExponentiation.CalculateCore *)
(*                                                                         *)
(* A *big.Int is a heap object: the model keeps every big.Int the program  *)
(* owns (lookup table entries, the integers of pooled states, the integers *)
(* allocated for results) in variables and refers to them by address, so   *)
(* that aliasing between a returned value and program-owned storage can be *)
(* expressed and refuted.                                                  *)
(***************************************************************************)
EXTENDS Integers, Sequences, FiniteSets, TLC

(***************************************************************************)
(* math/big: arbitrary-precision integers.                                 *)
(* A value is [neg, abs] as in math/big (type Int struct{neg bool; abs     *)
(* nat}); abs is a little-endian sequence of limbs in base 2^LimbBits      *)
(* without leading zero limbs, so equal numbers are equal values.          *)
(***************************************************************************)
LimbBits == 15

RECURSIVE Pow2(_)
Pow2(k) == IF k = 0 THEN 1 ELSE 2 * Pow2(k - 1)

Base == Pow2(LimbBits)

RECURSIVE NatNorm(_)
NatNorm(x) ==
    IF x = <<>> THEN <<>>
    ELSE IF x[Len(x)] = 0 THEN NatNorm(SubSeq(x, 1, Len(x) - 1))
    ELSE x

NatLimb(x, i) == IF i <= Len(x) THEN x[i] ELSE 0

Max2(a, b) == IF a >= b THEN a ELSE b

RECURSIVE NatAddFrom(_, _, _, _)
NatAddFrom(x, y, i, carry) ==
    IF i > Max2(Len(x), Len(y))
    THEN IF carry = 0 THEN <<>> ELSE <<carry>>
    ELSE LET t == NatLimb(x, i) + NatLimb(y, i) + carry
         IN  <<t % Base>> \o NatAddFrom(x, y, i + 1, t \div Base)

NatAdd(x, y) == NatAddFrom(x, y, 1, 0)

\* x - y for x >= y
RECURSIVE NatSubFrom(_, _, _, _)
NatSubFrom(x, y, i, borrow) ==
    IF i > Len(x) THEN <<>>
    ELSE LET t == x[i] - NatLimb(y, i) - borrow
         IN  IF t < 0
             THEN <<t + Base>> \o NatSubFrom(x, y, i + 1, 1)
             ELSE <<t>> \o NatSubFrom(x, y, i + 1, 0)

NatSub(x, y) == NatNorm(NatSubFrom(x, y, 1, 0))

\* -1, 0, 1 as x < y, x = y, x > y
RECURSIVE NatCmpFrom(_, _, _)
NatCmpFrom(x, y, i) ==
    IF i = 0 THEN 0
    ELSE IF x[i] < y[i] THEN -1
    ELSE IF x[i] > y[i] THEN 1
    ELSE NatCmpFrom(x, y, i - 1)

NatCmp(x, y) ==
    IF Len(x) < Len(y) THEN -1
    ELSE IF Len(x) > Len(y) THEN 1
    ELSE NatCmpFrom(x, y, Len(x))

\* x * d for one limb d
RECURSIVE NatMulLimbFrom(_, _, _, _)
NatMulLimbFrom(x, d, i, carry) ==
    IF i > Len(x)
    THEN IF carry = 0 THEN <<>> ELSE <<carry>>
    ELSE LET t == x[i] * d + carry
         IN  <<t % Base>> \o NatMulLimbFrom(x, d, i + 1, t \div Base)

RECURSIVE NatShiftLimbs(_, _)
NatShiftLimbs(x, k) ==
    IF k = 0 \/ x = <<>> THEN x ELSE NatShiftLimbs(<<0>> \o x, k - 1)

RECURSIVE NatMulFrom(_, _, _)
NatMulFrom(x, y, j) ==
    IF j > Len(y) THEN <<>>
    ELSE NatAdd(NatShiftLimbs(NatNorm(NatMulLimbFrom(x, y[j], 1, 0)), j - 1),
                NatMulFrom(x, y, j + 1))

NatMul(x, y) == IF x = <<>> \/ y = <<>> THEN <<>> ELSE NatMulFrom(x, y, 1)

RECURSIVE LimbLen(_)
LimbLen(d) == IF d = 0 THEN 0 ELSE 1 + LimbLen(d \div 2)

NatBitLen(x) ==
    IF x = <<>> THEN 0 ELSE LimbBits * (Len(x) - 1) + LimbLen(x[Len(x)])

RECURSIVE NatOfInt(_)
NatOfInt(n) == IF n = 0 THEN <<>> ELSE <<n % Base>> \o NatOfInt(n \div Base)

MkInt(neg, abs) == [neg |-> IF abs = <<>> THEN FALSE ELSE neg, abs |-> abs]

\* new(big.Int): the zero value
BigZero == MkInt(FALSE, <<>>)

\* big.NewInt(n), SetInt64(n), SetUint64(n) for a machine integer n
BigOfInt(n) == IF n < 0 THEN MkInt(TRUE, NatOfInt(-n)) ELSE MkInt(FALSE, NatOfInt(n))

\* z.Add(x, y)
BigAdd(x, y) ==
    IF x.neg = y.neg THEN MkInt(x.neg, NatAdd(x.abs, y.abs))
    ELSE IF NatCmp(x.abs, y.abs) >= 0 THEN MkInt(x.neg, NatSub(x.abs, y.abs))
    ELSE MkInt(~x.neg, NatSub(y.abs, x.abs))

\* z.Sub(x, y)
BigSub(x, y) ==
    IF x.neg # y.neg THEN MkInt(x.neg, NatAdd(x.abs, y.abs))
    ELSE IF NatCmp(x.abs, y.abs) >= 0 THEN MkInt(x.neg, NatSub(x.abs, y.abs))
    ELSE MkInt(~x.neg, NatSub(y.abs, x.abs))

\* z.Mul(x, y)
BigMul(x, y) == MkInt(x.neg # y.neg, NatMul(x.abs, y.abs))

\* z.Lsh(x, 1)
BigLsh1(x) == MkInt(x.neg, NatAdd(x.abs, x.abs))

\* x.BitLen(): the length of the absolute value in bits
BigBitLen(x) == NatBitLen(x.abs)

\* x.Cmp(y)
BigCmp(x, y) ==
    IF x.neg # y.neg THEN (IF x.neg THEN -1 ELSE 1)
    ELSE IF x.neg THEN NatCmp(y.abs, x.abs) ELSE NatCmp(x.abs, y.abs)


(***************************************************************************)
(* Machine integers of the source: uint64 indices and their bits.          *)
(***************************************************************************)
\* bits.Len64(n)
RECURSIVE Len64(_)
Len64(n) == IF n = 0 THEN 0 ELSE 1 + Len64(n \div 2)

\* (n >> uint(i)) & 1
BitAt(n, i) == (n \div Pow2(i)) % 2

\* A faulty init on 32-bit integers, var a, b uint32: the sum modulo 2^32
\* (32 = 2 limbs and 2 bits)
Uint32Add(a, b) ==
    LET t == NatAdd(a, b)
    IN  NatNorm([k \in 1..3 |-> IF k = 3 THEN NatLimb(t, 3) % 4 ELSE NatLimb(t, k)])

\* a + b in uint64: the sum modulo 2^64 (64 = 4 limbs and 4 bits)
Uint64Add(a, b) ==
    LET t == NatAdd(a, b)
    IN  NatNorm([k \in 1..5 |-> IF k = 5 THEN NatLimb(t, 5) % 16 ELSE NatLimb(t, k)])

(***************************************************************************)
(* calculator.go: constants, lookup table.                                 *)
(***************************************************************************)
MaxFibUint64 == 93

DefaultParallelThreshold == 2048

\* One pass of the loop body of init(): fibLookupTable[i] = a; a, b = b, a+b.
\* tab.lut holds the entries stored so far.
InitStep(tab) ==
    [lut |-> Append(tab.lut, MkInt(FALSE, tab.a)), a |-> tab.b, b |-> Uint64Add(tab.a, tab.b)]

RECURSIVE InitLoop(_, _)
InitLoop(tab, count) ==
    IF count = 0 THEN tab
    ELSE LET next == InitStep(tab)
         IN  IF Len(next.lut) > 0 THEN InitLoop(next, count - 1) ELSE next

\* init(): the table after the loop for i = 0..MaxFibUint64, run in blocks so
\* that the evaluation stays shallow.
InitTable ==
    LET t0 == [lut |-> <<>>, a |-> <<>>, b |-> <<1>>]
        q  == (MaxFibUint64 + 1) \div 4
        t1 == InitLoop(t0, q)
        t2 == IF Len(t1.lut) = q THEN InitLoop(t1, q) ELSE t1
        t3 == IF Len(t2.lut) = 2 * q THEN InitLoop(t2, q) ELSE t2
        t4 == IF Len(t3.lut) = 3 * q THEN InitLoop(t3, MaxFibUint64 + 1 - 3 * q) ELSE t3
    IN  [i \in 0..MaxFibUint64 |-> t4.lut[i + 1]]


(***************************************************************************)
(* State.                                                                  *)
(***************************************************************************)
VARIABLES
    numCPU,          \* runtime.NumCPU()
    harness,         \* what the caller of this run may ask for (fixed by Init)
    callsLeft,       \* calls the caller may still issue
    ctxErr,          \* ctx.Err() of the current call's context: "nil" or the error
    fibLookupTable,  \* var fibLookupTable [MaxFibUint64 + 1]*big.Int
    statePool,       \* instances held by statePool (indices into fdObj)
    fdObj,           \* every calculationState ever built by statePool's New
    matrixStatePool, \* instances held by matrixStatePool (indices into mxObj)
    mxObj,           \* every matrixState ever built by matrixStatePool's New
    newInts,         \* the big.Int allocated for return values, in allocation order
    pc,              \* where the running call stands
    call,            \* the running call: entry point, engine and arguments
    loc,             \* the locals of the running CalculateCore
    pending,         \* tasks dispatched in the current step and not yet done
    coreRet,         \* what CalculateCore returned to the facade
    held,            \* what the caller received from its calls so far, in order
    obs,             \* observations of the current call, used by properties only
    progressChan,    \* the progress channel of the call: "nil", or its capacity and buffer
    display,         \* the consumer of the progress channel
    workers,         \* calculations running concurrently, each with the state it holds
    app              \* cmd/fibcalc: the run in progress, its results and exit code

vars == <<numCPU, harness, callsLeft, ctxErr, fibLookupTable, statePool, fdObj,
          matrixStatePool, mxObj, newInts, pc, call, loc, pending, coreRet, held, obs,
          progressChan, display, workers, app>>

Engines == {"FastDoubling", "MatrixExp"}

Entries == {"Calculate", "CalculateCore"}

CtxErrors == {"Canceled", "DeadlineExceeded"}

(***************************************************************************)
(* Addresses of big.Int objects.  kind "new": newInts[id]; "lut":          *)
(* fibLookupTable[id]; "fd": a field of fdObj[id]; "mx": a field of        *)
(* mxObj[id] (part "" for t1..t8, or the matrix res, p, tempMatrix).       *)
(***************************************************************************)
Addr(kind, id, part, field) == [kind |-> kind, id |-> id, part |-> part, field |-> field]

NilRef == Addr("nil", 0, "", "")

Deref(r) ==
    CASE r.kind = "new" -> newInts[r.id]
      [] r.kind = "lut" -> fibLookupTable[r.id]
      [] r.kind = "fd"  -> fdObj[r.id][r.field]
      [] r.kind = "mx"  -> IF r.part = "" THEN mxObj[r.id][r.field]
                           ELSE mxObj[r.id][r.part][r.field]

(***************************************************************************)
(* calculator.go: the pooled states.                                       *)
(***************************************************************************)
\* statePool's New: a calculationState of six new(big.Int)
NewCalculationState ==
    [f_k |-> BigZero, f_k1 |-> BigZero, t1 |-> BigZero,
     t2 |-> BigZero, t3 |-> BigZero, t4 |-> BigZero]

\* (*calculationState).Reset
ResetCalculationState(s) ==
    [s EXCEPT !.f_k = BigOfInt(0), !.f_k1 = BigOfInt(1)]

\* newMatrix()
NewMatrix == [a |-> BigZero, b |-> BigZero, c |-> BigZero, d |-> BigZero]

\* (*matrix).SetIdentity
SetIdentity(m) ==
    [m EXCEPT !.a = BigOfInt(1), !.b = BigOfInt(0), !.c = BigOfInt(0), !.d = BigOfInt(1)]

\* (*matrix).SetBaseQ
SetBaseQ(m) ==
    [m EXCEPT !.a = BigOfInt(1), !.b = BigOfInt(1), !.c = BigOfInt(1), !.d = BigOfInt(0)]

\* matrixStatePool's New
NewMatrixState ==
    [res |-> NewMatrix, p |-> NewMatrix, tempMatrix |-> NewMatrix,
     t1 |-> BigZero, t2 |-> BigZero, t3 |-> BigZero, t4 |-> BigZero,
     t5 |-> BigZero, t6 |-> BigZero, t7 |-> BigZero, t8 |-> BigZero]

\* (*matrixState).Reset
ResetMatrixState(s) ==
    [s EXCEPT !.res = SetIdentity(s.res), !.p = SetBaseQ(s.p)]

\* The states of one kind that runs build: sync.Pool may forget what it holds
\* at any time, and then builds a new state, here up to MaxPoolObjects of them
\* (more only when the pool holds none).
MaxPoolObjects == 2

\* Pool.Get (sync.Pool.Get): an instance the pool holds, or a new one.  The
\* result is the set of indices Get may return; Len(objs) + 1 stands for the
\* instance New builds.
\* A faulty pool that is one shared instance: Get hands it to every caller.
PoolGetShared(pool, objs) == {1}

\* Pool.Get: one of the pooled instances, or the one New builds (a sync.Pool may
\* build one even when it holds some); the instances a number past those built
\* so far stands for the new one.
PoolGet(pool, objs) ==
    pool \cup (IF pool = {} \/ Len(objs) < MaxPoolObjects THEN {Len(objs) + 1} ELSE {})

\* releaseToPool(p, item) for a non-nil item: p.Put(item)
releaseToPool(pool, item) == pool \cup {item}

\* A faulty acquire that resets the states it builds and not those it recycles.
acquireStateNoReset(objs, id) ==
    IF id > Len(objs) THEN Append(objs, ResetCalculationState(NewCalculationState)) ELSE objs

\* acquireState: acquireFromPool(statePool), item := p.Get(); item.Reset().
\* objs are the instances built so far and id the one Get hands out (a new one
\* when id is past them); the result is the instances after the call.
acquireState(objs, id) ==
    IF id > Len(objs)
    THEN Append(objs, ResetCalculationState(NewCalculationState))
    ELSE [objs EXCEPT ![id] = ResetCalculationState(objs[id])]
releaseState(pool, item) == releaseToPool(pool, item)

\* acquireMatrixState, releaseMatrixState: the same over matrixStatePool.
acquireMatrixState(objs, id) ==
    IF id > Len(objs)
    THEN Append(objs, ResetMatrixState(NewMatrixState))
    ELSE [objs EXCEPT ![id] = ResetMatrixState(objs[id])]
releaseMatrixState(pool, item) == releaseToPool(pool, item)

\* getState and putState, which the fast-doubling engine and TestStatePooling
\* call: the acquire and the release of a calculationState of statePool, the
\* acquire handing out a state at its baseline.
getState(objs, id) == acquireState(objs, id)
putState(pool, item) == releaseState(pool, item)


(***************************************************************************)
(* fastdoubling.go: the steps of OptimizedFastDoubling.CalculateCore on a  *)
(* calculationState s.                                                     *)
(***************************************************************************)
\* A faulty common term with the operands of the subtraction exchanged:
\* s.t2.Sub(s.f_k, s.t2)
FDCommonTermSwapped(s) ==
    [s EXCEPT !.t2 = BigSub(s.f_k, BigLsh1(s.f_k1))]

\* s.t2.Lsh(s.f_k1, 1); s.t2.Sub(s.t2, s.f_k)
FDCommonTerm(s) ==
    [s EXCEPT !.t2 = BigSub(BigLsh1(s.f_k1), s.f_k)]

FDTasks == {"A", "B", "C"}

\* Faulty goroutines: B writes its product to t3, the destination of A.
FDTaskSharedDest(s, t) ==
    CASE t = "A" -> [s EXCEPT !.t3 = BigMul(s.f_k, s.t2)]
      [] t = "B" -> [s EXCEPT !.t3 = BigMul(s.f_k1, s.f_k1)]
      [] t = "C" -> [s EXCEPT !.t4 = BigMul(s.f_k, s.f_k)]

\* The three multiplications, as dispatched to goroutines A, B, C and as
\* written in the sequential branch: each is dest.Mul(src1, src2).
FDTask(s, t) ==
    CASE t = "A" -> [s EXCEPT !.t3 = BigMul(s.f_k, s.t2)]
      [] t = "B" -> [s EXCEPT !.t1 = BigMul(s.f_k1, s.f_k1)]
      [] t = "C" -> [s EXCEPT !.t4 = BigMul(s.f_k, s.f_k)]

\* The sequential branch: t3, then t1, then t4.
FDSequentialMuls(s) == FDTask(FDTask(FDTask(s, "A"), "B"), "C")

\* useParallel && s.f_k1.BitLen() > threshold
FDUseParallel(s, useParallel, threshold) ==
    useParallel /\ BigBitLen(s.f_k1) > threshold

\* A faulty assembly that leaves one square out: s.f_k1.Set(s.t1)
FDAssembleOneSquare(s) ==
    [s EXCEPT !.f_k = s.t3, !.f_k1 = s.t1]

\* s.f_k.Set(s.t3); s.f_k1.Add(s.t1, s.t4)
FDAssemble(s) ==
    [s EXCEPT !.f_k = s.t3, !.f_k1 = BigAdd(s.t1, s.t4)]

\* A faulty addition step, without the last statement s.f_k.Set(s.t1).
FDAddStepNoSet(s, n, i) ==
    IF BitAt(n, i) = 1
    THEN [s EXCEPT !.t1 = s.f_k1, !.f_k1 = BigAdd(s.f_k1, s.f_k)]
    ELSE s

\* if (n>>uint(i))&1 == 1 { t1 = f_k1; f_k1 = f_k1 + f_k; f_k = t1 }
FDAddStep(s, n, i) ==
    IF BitAt(n, i) = 1
    THEN [s EXCEPT !.t1 = s.f_k1, !.f_k1 = BigAdd(s.f_k1, s.f_k), !.f_k = s.f_k1]
    ELSE s

\* The rest of an iteration once the three products are there.
FDFinishIteration(s, n, i) == FDAddStep(FDAssemble(s), n, i)

(***************************************************************************)
(* Progress reporting.  A progress value is a float64 between 0 and 1; it  *)
(* is kept here as a binary fraction of FracBits bits, multiples of        *)
(* 2^-FracBits, a division rounding to the nearest of them.               *)
(***************************************************************************)
FracBits == 20

\* 1.0
One == Pow2(FracBits)

\* 1.0 / float64(k), for k > 0
FloatInv(k) == (2 * One + k) \div (2 * k)

\* A nil progress channel.
NilChan == [cap |-> -1, buf |-> <<>>]

\* The consumer of the channel: whether it is blocked in a receive, and the
\* updates it has received so far.
NoDisplay == [waiting |-> FALSE, received |-> <<>>]

\* A Calculator of the registry of cmd/fibcalc: a FibCalculator around a core,
\* or the mockCalculator of the tests with the value and the error it returns.
\* An error is the chain errors.Unwrap walks, outermost first; <<>> is nil.
NoCalculator == [kind |-> "nil", core |-> "nil", returnValue |-> NilRef, returnError |-> <<>>]

\* CalculationResult{Result, Duration, Err} of a calculator that has not
\* finished.
NoResult == [Result |-> NilRef, Err |-> <<>>, Duration |-> 0]

\* The program before the registry is built: no configuration, no run.
NoApp ==
    [phase |-> "none",
     cores |-> [fast |-> "", matrix |-> ""],
     registry |-> [fast |-> NoCalculator, matrix |-> NoCalculator],
     injected |-> FALSE,
     config |-> [Algo |-> "", N |-> 0],
     ctx0 |-> "nil", triggered |-> FALSE,
     calcs |-> <<>>, results |-> <<>>, current |-> 0, exit |-> -1]

\* ProgressUpdate{CalculatorIndex: calcIndex, Value: progress}
ProgressUpdate(calcIndex, progress) == [CalculatorIndex |-> calcIndex, Value |-> progress]

\* A send on the channel can proceed at once: a receiver is waiting, or the
\* buffer has room.
CanSend(ch, disp) == ch.cap >= 0 /\ (disp.waiting \/ Len(ch.buf) < ch.cap)

\* The send ch <- update when it can proceed: the update goes to the waiting
\* receiver, or into the buffer.
Sent(ch, disp, update) ==
    IF disp.waiting
    THEN [chan |-> ch, outcome |-> "sent", update |-> update,
          display |-> [waiting |-> FALSE, received |-> Append(disp.received, update)]]
    ELSE [chan |-> [ch EXCEPT !.buf = Append(@, update)], outcome |-> "sent",
          update |-> update, display |-> disp]

\* A faulty reporter whose send has no default clause: when the channel cannot
\* accept the update the calculation is blocked in the send.
reporterBlocking(ch, disp, calcIndex, progress) ==
    IF ch.cap < 0
    THEN [chan |-> ch, display |-> disp, outcome |-> "nil",
          update |-> ProgressUpdate(calcIndex, progress)]
    ELSE IF CanSend(ch, disp)
         THEN Sent(ch, disp, ProgressUpdate(calcIndex, progress))
         ELSE [chan |-> ch, display |-> disp, outcome |-> "blocked",
               update |-> ProgressUpdate(calcIndex, progress)]

\* The closure reporter of FibCalculator.Calculate, called with progress:
\* nothing on a nil channel; otherwise the value is capped at 1.0 and sent
\* without blocking, select { case progressChan <- update: default: }.
\* The result is the channel and its consumer after the call, the update, and
\* what became of it.
reporter(ch, disp, calcIndex, progress) ==
    IF ch.cap < 0
    THEN [chan |-> ch, display |-> disp, outcome |-> "nil",
          update |-> ProgressUpdate(calcIndex, progress)]
    ELSE LET update == ProgressUpdate(calcIndex, IF progress > One THEN One ELSE progress)
         IN  IF CanSend(ch, disp)
             THEN Sent(ch, disp, update)
             ELSE [chan |-> ch, display |-> disp, outcome |-> "dropped",
                   update |-> update]

\* reportProgress(progressChan, calcIndex, progress), which the fast-doubling
\* engine calls: nothing on a nil channel, a send that does not block
\* otherwise.
reportProgress(ch, disp, calcIndex, progress) == reporter(ch, disp, calcIndex, progress)

\* A faulty progress that counts the bits left instead of the bits done.
FDProgressBitsLeft(numBits, i) == (i + 1) * FloatInv(numBits)

\* float64(numBits-1-i) * invNumBits
FDProgress(numBits, i) == (numBits - 1 - i) * FloatInv(numBits)

\* float64(i) * invNumBits
MXProgress(numBits, i) == i * FloatInv(numBits)

(***************************************************************************)
(* The caller and the facade (calculator.go).                              *)
(***************************************************************************)
NoLocals ==
    [n |-> 0, threshold |-> 0, s |-> 0, numBits |-> 0, i |-> 0,
     useParallel |-> FALSE, exponent |-> 0,
     resultMatrix |-> "", powerMatrix |-> "", tempMatrix |-> ""]

NoCall ==
    [entry |-> "", engine |-> "", n |-> 0, threshold |-> 0, ctx0 |-> "nil",
     calcIndex |-> 0]

NoRet == [ref |-> NilRef, err |-> "nil"]

\* Observations of one call: the invocations of the core by the facade, the
\* multiplications executed, the steps fanned out to goroutines, the
\* iterations whose cancellation check passed; and, from the moment the
\* context is done, the iterations and multiplications counted at that moment
\* and the cancellation checks that were still to come.
NoObs ==
    [coreCalls |-> 0, muls |-> 0, fanouts |-> 0, iter |-> 0,
     trigIter |-> -1, trigMuls |-> -1, trigLeft |-> -1,
     acquired |-> 0, released |-> 0, updates |-> <<>>]

\* A faulty check that only sees a deadline: ctx.Err() == context.DeadlineExceeded
CancelledOnDeadlineOnly == ctxErr = "DeadlineExceeded"

\* A check that sees nothing.
CancelledNever == FALSE

\* ctx.Err() != nil
Cancelled == ctxErr # "nil"

\* The caller keeps what a call returned: the pointer and the error, with the
\* value the pointer led to at that moment, what the core had returned to the
\* facade, and the observations of the call.
\* The caller also counts the changes it makes itself to a value it received
\* (muts), and notes how many changes it had made when a call returned.
RECURSIVE MutsIn(_, _)
MutsIn(hs, k) == IF k = 0 THEN 0 ELSE hs[k].muts + MutsIn(hs, k - 1)

Received(c, ref, val, err, core, ctx, o) ==
    [entry |-> c.entry, engine |-> c.engine, n |-> c.n, threshold |-> c.threshold,
     ctx0 |-> c.ctx0, ref |-> ref, val |-> val, err |-> err,
     core |-> core, ctx |-> ctx, obs |-> o,
     muts |-> 0, mutsBefore |-> MutsIn(held, Len(held))]

\* A faulty lookupSmall that returns the table's own pointer:
\* return fibLookupTable[n]
lookupSmallNoCopy(n) == [ref |-> Addr("lut", n, "", ""), alloc |-> <<>>]

\* new(big.Int).Set(x): a new integer holding x's value
NewIntRef == Addr("new", Len(newInts) + 1, "", "")

\* lookupSmall(n): return new(big.Int).Set(fibLookupTable[n])
lookupSmall(n) == [ref |-> NewIntRef, alloc |-> <<fibLookupTable[n]>>]

\* A faulty delegation that hands the default threshold to the core.
CoreArgsDefaultThreshold(n, threshold) ==
    [n |-> n, threshold |-> DefaultParallelThreshold]

\* The arguments FibCalculator.Calculate hands to the core:
\* c.core.CalculateCore(ctx, reporter, n, threshold)
CoreArgs(n, threshold) == [n |-> n, threshold |-> threshold]

\* A faulty end of Calculate that drops the error: return result, nil
FacadeResultDropsError(result, err) == [ref |-> result, err |-> "nil"]

\* return result, err at the end of FibCalculator.Calculate
FacadeResult(result, err) == [ref |-> result, err |-> err]

\* The number of top-of-iteration cancellation checks a CalculateCore of the
\* engine has to make for index n.
ChecksOf(engine, n) ==
    IF engine = "FastDoubling" THEN Len64(n)
    ELSE IF n = 0 THEN 0 ELSE Len64(n - 1)

\* The number of top-of-iteration cancellation checks the running call has
\* still to make.
ChecksLeft ==
    CASE pc = "core_entry" -> ChecksOf(call.engine, loc.n)
      [] pc = "fd_top" -> loc.i + 1
      [] pc \in {"fd_body", "fd_wait"} -> loc.i
      [] pc = "mx_top" -> loc.numBits - loc.i
      [] pc \in {"mx_body", "mx_mul_wait", "mx_square", "mx_sq_wait"} ->
            loc.numBits - loc.i - 1
      [] OTHER -> 0

\* The observations at the start of a call whose context is in state ctx0.
StartObs(ctx0, left) ==
    IF ctx0 = "nil" THEN NoObs
    ELSE [NoObs EXCEPT !.trigIter = 0, !.trigMuls = 0, !.trigLeft = left]

\* The calculator index the caller passes: the position of the calculator in
\* executeCalculations (idx), or the index the test chose.
CallerIndex == IF app.phase = "executing" THEN app.current - 1 ELSE harness.calcIndex

\* The observations o of a call after a call of the reporter that gave r:
\* the update, what became of it, and whether the channel could accept it.
Reported(o, r) ==
    IF r.outcome = "nil" THEN o
    ELSE [o EXCEPT !.updates = Append(@, [update |-> r.update, outcome |-> r.outcome,
                                          ready |-> CanSend(progressChan, display)])]

\* The channel and its consumer after the call of the reporter that gave r.
Report(r) ==
    /\ progressChan' = r.chan
    /\ display' = r.display

\* A step that reports nothing.
NoReport == progressChan' = progressChan /\ display' = display

\* A faulty facade that takes the fast path only under a live context:
\* if n <= MaxFibUint64 && ctx.Err() == nil
CallFastPathIfLive(entry, engine, n, threshold, ctx0) ==
    /\ pc = "idle"
    /\ callsLeft > 0
    /\ callsLeft' = callsLeft - 1
    /\ ctxErr' = ctx0
    /\ call' = [entry |-> entry, engine |-> engine, n |-> n, threshold |-> threshold,
                ctx0 |-> ctx0, calcIndex |-> CallerIndex]
    /\ pending' = {}
    /\ coreRet' = NoRet
    /\ IF entry = "Calculate" /\ n <= MaxFibUint64 /\ ctx0 = "nil"
       THEN \* reporter(1.0); return lookupSmall(n), nil
            LET r == reporter(progressChan, display, CallerIndex, One)
            IN  /\ Report(r)
                /\ newInts' = newInts \o lookupSmall(n).alloc
                /\ held' = Append(held,
                      Received(call', lookupSmall(n).ref, fibLookupTable[n], "nil",
                               NoRet, ctx0, Reported(StartObs(ctx0, 0), r)))
                /\ pc' = "idle"
                /\ loc' = NoLocals
                /\ obs' = Reported(StartObs(ctx0, 0), r)
       ELSE \* c.core.CalculateCore(ctx, reporter, n, threshold)
            /\ pc' = "core_entry"
            /\ loc' = IF entry = "Calculate"
                      THEN [NoLocals EXCEPT !.n = CoreArgs(n, threshold).n,
                                            !.threshold = CoreArgs(n, threshold).threshold]
                      ELSE [NoLocals EXCEPT !.n = n, !.threshold = threshold]
            /\ obs' = [StartObs(ctx0, ChecksOf(engine, n)) EXCEPT
                          !.coreCalls = IF entry = "Calculate" THEN 1 ELSE 0]
            /\ NoReport
            /\ UNCHANGED <<newInts, held>>
    /\ UNCHANGED <<numCPU, harness, fibLookupTable, statePool, fdObj,
                   matrixStatePool, mxObj>>
    /\ UNCHANGED <<workers, app>>


\* FibCalculator.Calculate up to the delegation to the core, or a direct call
\* of CalculateCore (as the tests of the engines do), with the progress
\* channel and the calculator index of the caller.  ctx0 is the state of the
\* context handed in.
Call(entry, engine, n, threshold, ctx0) ==
    /\ pc = "idle"
    /\ callsLeft > 0
    /\ callsLeft' = callsLeft - 1
    /\ ctxErr' = ctx0
    /\ call' = [entry |-> entry, engine |-> engine, n |-> n, threshold |-> threshold,
                ctx0 |-> ctx0, calcIndex |-> CallerIndex]
    /\ pending' = {}
    /\ coreRet' = NoRet
    /\ IF entry = "Calculate" /\ n <= MaxFibUint64
       THEN \* reporter(1.0); return lookupSmall(n), nil
            LET r == reporter(progressChan, display, CallerIndex, One)
            IN  /\ Report(r)
                /\ newInts' = newInts \o lookupSmall(n).alloc
                /\ held' = Append(held,
                      Received(call', lookupSmall(n).ref, fibLookupTable[n], "nil",
                               NoRet, ctx0, Reported(StartObs(ctx0, 0), r)))
                /\ pc' = "idle"
                /\ loc' = NoLocals
                /\ obs' = Reported(StartObs(ctx0, 0), r)
       ELSE \* c.core.CalculateCore(ctx, reporter, n, threshold)
            /\ pc' = "core_entry"
            /\ loc' = IF entry = "Calculate"
                      THEN [NoLocals EXCEPT !.n = CoreArgs(n, threshold).n,
                                            !.threshold = CoreArgs(n, threshold).threshold]
                      ELSE [NoLocals EXCEPT !.n = n, !.threshold = threshold]
            /\ obs' = [StartObs(ctx0, ChecksOf(engine, n)) EXCEPT
                          !.coreCalls = IF entry = "Calculate" THEN 1 ELSE 0]
            /\ NoReport
            /\ UNCHANGED <<newInts, held>>
    /\ UNCHANGED <<numCPU, harness, fibLookupTable, statePool, fdObj,
                   matrixStatePool, mxObj>>
    /\ UNCHANGED <<workers, app>>

\* The caller's context is cancelled, or its deadline passes, while the call
\* is running.
Trigger(e) ==
    /\ harness.cancel
    /\ pc # "idle"
    /\ ctxErr = "nil"
    /\ ctxErr' = e
    /\ obs' = [obs EXCEPT !.trigIter = obs.iter, !.trigMuls = obs.muls,
                          !.trigLeft = ChecksLeft]
    /\ UNCHANGED <<numCPU, harness, callsLeft, fibLookupTable, statePool, fdObj,
                   matrixStatePool, mxObj, newInts, pc, call, loc, pending, coreRet, held>>
    /\ UNCHANGED <<progressChan, display, workers, app>>

\* The observations once the deferred release of the state has run.
AfterRelease(o) == [o EXCEPT !.released = @ + 1]

\* CalculateCore returns (ref, err), ref leading to val: to the caller when it
\* was called directly, to FibCalculator.Calculate otherwise.  o is what was
\* observed of the call up to its return.
CoreReturn(ref, val, err, o) ==
    IF call.entry = "CalculateCore"
    THEN /\ held' = Append(held, Received(call, ref, val, err, NoRet, ctxErr, o))
         /\ pc' = "idle"
         /\ coreRet' = NoRet
    ELSE /\ coreRet' = [ref |-> ref, err |-> err]
         /\ pc' = "core_done"
         /\ held' = held

\* A faulty facade without its final report.
CalculateReturnNoSafetyNet ==
    /\ pc = "core_done"
    /\ LET r == FacadeResult(coreRet.ref, coreRet.err)
       IN  held' = Append(held,
              Received(call, r.ref, IF r.ref = NilRef THEN BigZero ELSE Deref(r.ref),
                       r.err, coreRet, ctxErr, obs))
    /\ pc' = "idle"
    /\ UNCHANGED <<numCPU, harness, callsLeft, ctxErr, fibLookupTable, statePool, fdObj,
                   matrixStatePool, mxObj, newInts, call, loc, pending, coreRet, obs>>
    /\ UNCHANGED <<progressChan, display, workers, app>>

\* FibCalculator.Calculate after the core returned:
\* if err == nil && result != nil { reporter(1.0) }; return result, err
CalculateReturn ==
    /\ pc = "core_done"
    /\ LET r == FacadeResult(coreRet.ref, coreRet.err)
           p == reporter(progressChan, display, call.calcIndex, One)
           o == IF coreRet.err = "nil" /\ coreRet.ref # NilRef THEN Reported(obs, p) ELSE obs
       IN  /\ IF coreRet.err = "nil" /\ coreRet.ref # NilRef THEN Report(p) ELSE NoReport
           /\ obs' = o
           /\ held' = Append(held,
                 Received(call, r.ref, IF r.ref = NilRef THEN BigZero ELSE Deref(r.ref),
                          r.err, coreRet, ctxErr, o))
    /\ pc' = "idle"
    /\ UNCHANGED <<numCPU, harness, callsLeft, ctxErr, fibLookupTable, statePool, fdObj,
                   matrixStatePool, mxObj, newInts, call, loc, pending, coreRet>>
    /\ UNCHANGED <<workers, app>>

\* A direct call of lookupSmall(n), as the tests of the table make.
Lookup(n) ==
    /\ pc = "idle"
    /\ callsLeft > 0
    /\ callsLeft' = callsLeft - 1
    /\ newInts' = newInts \o lookupSmall(n).alloc
    /\ held' = Append(held,
          Received([NoCall EXCEPT !.entry = "lookupSmall", !.n = n],
                   lookupSmall(n).ref, fibLookupTable[n], "nil", NoRet, "nil", NoObs))
    /\ UNCHANGED <<numCPU, harness, ctxErr, fibLookupTable, statePool, fdObj,
                   matrixStatePool, mxObj, pc, call, loc, pending, coreRet, obs>>
    /\ UNCHANGED <<progressChan, display, workers, app>>

\* The caller changes in place the k-th value it received, as the tests do:
\* val.Add(val, big.NewInt(1)).  The integer changed is the one the pointer
\* leads to.
Mutate(k) ==
    /\ pc = "idle"
    /\ k \in DOMAIN held
    /\ held[k].ref.kind \in {"new", "lut"}
    /\ held[k].muts < harness.mutations
    /\ LET r == held[k].ref
           v == BigAdd(Deref(r), BigOfInt(1))
       IN  /\ newInts' = IF r.kind = "new" THEN [newInts EXCEPT ![r.id] = v]
                                          ELSE newInts
           /\ fibLookupTable' = IF r.kind = "lut" THEN [fibLookupTable EXCEPT ![r.id] = v]
                                                  ELSE fibLookupTable
    /\ held' = [held EXCEPT ![k].muts = @ + 1]
    /\ UNCHANGED <<numCPU, harness, callsLeft, ctxErr, statePool, fdObj,
                   matrixStatePool, mxObj, pc, call, loc, pending, coreRet, obs>>
    /\ UNCHANGED <<progressChan, display, workers, app>>


(***************************************************************************)
(* fastdoubling.go: OptimizedFastDoubling.CalculateCore.                   *)
(***************************************************************************)
\* s := getState(); defer putState(s); numBits := bits.Len64(n);
\* useParallel := runtime.NumCPU() > 1; i := numBits - 1
FDEnter ==
    /\ pc = "core_entry"
    /\ call.engine = "FastDoubling"
    /\ \E id \in PoolGet(statePool, fdObj) :
          /\ statePool' = statePool \ {id}
          /\ fdObj' = getState(fdObj, id)
          /\ loc' = [loc EXCEPT !.s = id, !.numBits = Len64(loc.n),
                                     !.i = Len64(loc.n) - 1,
                                     !.useParallel = (numCPU > 1)]
    /\ pc' = "fd_top"
    /\ obs' = [obs EXCEPT !.acquired = @ + 1]
    /\ UNCHANGED <<numCPU, harness, callsLeft, ctxErr, fibLookupTable, matrixStatePool,
                   mxObj, newInts, call, pending, coreRet, held>>
    /\ UNCHANGED <<progressChan, display, workers, app>>

\* A faulty loop whose check was hoisted out of it: the context is looked at
\* before the first iteration only.
FDLoopTopCheckOnce ==
    /\ pc = "fd_top"
    /\ loc.i >= 0
    /\ IF Cancelled /\ loc.i = loc.numBits - 1
       THEN /\ CoreReturn(NilRef, BigZero, ctxErr, AfterRelease(obs))
            /\ statePool' = putState(statePool, loc.s)
            /\ obs' = AfterRelease(obs)
            /\ NoReport
       ELSE \* if progressChan != nil && i < numBits-1 { reportProgress(...) }
            /\ pc' = "fd_body"
            /\ IF progressChan.cap >= 0 /\ loc.i < loc.numBits - 1
               THEN LET r == reportProgress(progressChan, display, call.calcIndex,
                                            FDProgress(loc.numBits, loc.i))
                    IN  /\ Report(r)
                        /\ obs' = Reported([obs EXCEPT !.iter = @ + 1], r)
               ELSE /\ NoReport
                    /\ obs' = [obs EXCEPT !.iter = @ + 1]
            /\ UNCHANGED <<statePool, coreRet, held>>
    /\ UNCHANGED <<numCPU, harness, callsLeft, ctxErr, fibLookupTable, fdObj,
                   matrixStatePool, mxObj, newInts, call, loc, pending>>
    /\ UNCHANGED <<workers, app>>

\* Top of an iteration (i >= 0): if ctx.Err() != nil { return nil, ctx.Err() },
\* with the deferred putState(s).
FDLoopTop ==
    /\ pc = "fd_top"
    /\ loc.i >= 0
    /\ IF Cancelled
       THEN /\ CoreReturn(NilRef, BigZero, ctxErr, AfterRelease(obs))
            /\ statePool' = putState(statePool, loc.s)
            /\ obs' = AfterRelease(obs)
            /\ NoReport
       ELSE \* if progressChan != nil && i < numBits-1 { reportProgress(...) }
            /\ pc' = "fd_body"
            /\ IF progressChan.cap >= 0 /\ loc.i < loc.numBits - 1
               THEN LET r == reportProgress(progressChan, display, call.calcIndex,
                                            FDProgress(loc.numBits, loc.i))
                    IN  /\ Report(r)
                        /\ obs' = Reported([obs EXCEPT !.iter = @ + 1], r)
               ELSE /\ NoReport
                    /\ obs' = [obs EXCEPT !.iter = @ + 1]
            /\ UNCHANGED <<statePool, coreRet, held>>
    /\ UNCHANGED <<numCPU, harness, callsLeft, ctxErr, fibLookupTable, fdObj,
                   matrixStatePool, mxObj, newInts, call, loc, pending>>
    /\ UNCHANGED <<workers, app>>

\* The body of an iteration up to the multiplications: the common term, then
\* either the three goroutines are started (wg.Add(3); go ...) or the
\* sequential branch runs and the iteration is finished.
FDStep ==
    /\ pc = "fd_body"
    /\ LET s1 == FDCommonTerm(fdObj[loc.s])
       IN  IF FDUseParallel(s1, loc.useParallel, loc.threshold)
           THEN /\ fdObj' = [fdObj EXCEPT ![loc.s] = s1]
                /\ pending' = FDTasks
                /\ pc' = "fd_wait"
                /\ obs' = [obs EXCEPT !.fanouts = @ + 1]
                /\ loc' = loc
           ELSE /\ fdObj' = [fdObj EXCEPT ![loc.s] =
                                FDFinishIteration(FDSequentialMuls(s1), loc.n, loc.i)]
                /\ loc' = [loc EXCEPT !.i = @ - 1]
                /\ obs' = [obs EXCEPT !.muls = @ + 3]
                /\ pc' = "fd_top"
                /\ pending' = pending
    /\ UNCHANGED <<numCPU, harness, callsLeft, ctxErr, fibLookupTable, statePool,
                   matrixStatePool, mxObj, newInts, call, coreRet, held>>
    /\ UNCHANGED <<progressChan, display, workers, app>>

\* One of the goroutines started in this step runs: dest.Mul(...); wg.Done()
FDRunTask(t) ==
    /\ pc = "fd_wait"
    /\ t \in pending
    /\ fdObj' = [fdObj EXCEPT ![loc.s] = FDTask(fdObj[loc.s], t)]
    /\ pending' = pending \ {t}
    /\ obs' = [obs EXCEPT !.muls = @ + 1]
    /\ UNCHANGED <<numCPU, harness, callsLeft, ctxErr, fibLookupTable, statePool,
                   matrixStatePool, mxObj, newInts, pc, call, loc, coreRet, held>>
    /\ UNCHANGED <<progressChan, display, workers, app>>

\* A faulty step without wg.Wait(): the products are assembled and the
\* iteration finished while goroutines of the step may still be running.
FDJoinNoWait ==
    /\ pc = "fd_wait"
    /\ fdObj' = [fdObj EXCEPT ![loc.s] = FDFinishIteration(fdObj[loc.s], loc.n, loc.i)]
    /\ loc' = [loc EXCEPT !.i = @ - 1]
    /\ pc' = "fd_top"
    /\ UNCHANGED <<numCPU, harness, callsLeft, ctxErr, fibLookupTable, statePool,
                   matrixStatePool, mxObj, newInts, call, pending, coreRet, held, obs>>
    /\ UNCHANGED <<progressChan, display, workers, app>>

\* wg.Wait() returns; the products are assembled and the iteration finished.
FDJoin ==
    /\ pc = "fd_wait"
    /\ pending = {}
    /\ fdObj' = [fdObj EXCEPT ![loc.s] = FDFinishIteration(fdObj[loc.s], loc.n, loc.i)]
    /\ loc' = [loc EXCEPT !.i = @ - 1]
    /\ pc' = "fd_top"
    /\ UNCHANGED <<numCPU, harness, callsLeft, ctxErr, fibLookupTable, statePool,
                   matrixStatePool, mxObj, newInts, call, pending, coreRet, held, obs>>
    /\ UNCHANGED <<progressChan, display, workers, app>>

\* A faulty return statement that hands out the state's integer: return s.f_k, nil
FDResultNoCopy(id) == [ref |-> Addr("fd", id, "", "f_k"), alloc |-> <<>>]

\* What the return statement hands out: new(big.Int).Set(s.f_k)
FDResult(id) == [ref |-> NewIntRef, alloc |-> <<fdObj[id].f_k>>]

\* After the loop: reportProgress(progressChan, calcIndex, 1.0);
\* return new(big.Int).Set(s.f_k), nil, with the deferred putState(s).
FDReturn ==
    /\ pc = "fd_top"
    /\ loc.i < 0
    /\ newInts' = newInts \o FDResult(loc.s).alloc
    /\ LET r == reportProgress(progressChan, display, call.calcIndex, One)
       IN  /\ Report(r)
           /\ CoreReturn(FDResult(loc.s).ref, fdObj[loc.s].f_k, "nil",
                         AfterRelease(Reported(obs, r)))
           /\ obs' = AfterRelease(Reported(obs, r))
    /\ statePool' = putState(statePool, loc.s)
    /\ UNCHANGED <<numCPU, harness, callsLeft, ctxErr, fibLookupTable, fdObj,
                   matrixStatePool, mxObj, call, loc, pending>>
    /\ UNCHANGED <<workers, app>>


(***************************************************************************)
(* matrix.go: the steps of MatrixExponentiation.CalculateCore on a         *)
(* matrixState ms.  A *matrix of the state is named by the field that      *)
(* holds it: "res", "p" or "tempMatrix".                                   *)
(***************************************************************************)
MulTasks == {"M1", "M2", "M3", "M4", "M5", "M6", "M7", "M8"}

SquareTasks == {"S1", "S2", "S3", "S4"}

\* Faulty closures: the second product is written to state.t1, the
\* destination of the first.
MulTaskSharedTemp(ms, m1, m2, t) ==
    CASE t = "M1" -> [ms EXCEPT !.t1 = BigMul(ms[m1].a, ms[m2].a)]
      [] t = "M2" -> [ms EXCEPT !.t1 = BigMul(ms[m1].b, ms[m2].c)]
      [] t = "M3" -> [ms EXCEPT !.t3 = BigMul(ms[m1].a, ms[m2].b)]
      [] t = "M4" -> [ms EXCEPT !.t4 = BigMul(ms[m1].b, ms[m2].d)]
      [] t = "M5" -> [ms EXCEPT !.t5 = BigMul(ms[m1].c, ms[m2].a)]
      [] t = "M6" -> [ms EXCEPT !.t6 = BigMul(ms[m1].d, ms[m2].c)]
      [] t = "M7" -> [ms EXCEPT !.t7 = BigMul(ms[m1].c, ms[m2].b)]
      [] t = "M8" -> [ms EXCEPT !.t8 = BigMul(ms[m1].d, ms[m2].d)]

\* multiplyMatrices: the closures of the tasks slice, in order
MulTask(ms, m1, m2, t) ==
    CASE t = "M1" -> [ms EXCEPT !.t1 = BigMul(ms[m1].a, ms[m2].a)]
      [] t = "M2" -> [ms EXCEPT !.t2 = BigMul(ms[m1].b, ms[m2].c)]
      [] t = "M3" -> [ms EXCEPT !.t3 = BigMul(ms[m1].a, ms[m2].b)]
      [] t = "M4" -> [ms EXCEPT !.t4 = BigMul(ms[m1].b, ms[m2].d)]
      [] t = "M5" -> [ms EXCEPT !.t5 = BigMul(ms[m1].c, ms[m2].a)]
      [] t = "M6" -> [ms EXCEPT !.t6 = BigMul(ms[m1].d, ms[m2].c)]
      [] t = "M7" -> [ms EXCEPT !.t7 = BigMul(ms[m1].c, ms[m2].b)]
      [] t = "M8" -> [ms EXCEPT !.t8 = BigMul(ms[m1].d, ms[m2].d)]

\* A faulty assembly that adds the wrong pair: dest.a.Add(state.t1, state.t3)
MulAssembleWrongPair(ms, dest) ==
    [ms EXCEPT ![dest] = [a |-> BigAdd(ms.t1, ms.t3), b |-> BigAdd(ms.t3, ms.t4),
                          c |-> BigAdd(ms.t5, ms.t6), d |-> BigAdd(ms.t7, ms.t8)]]

\* multiplyMatrices: dest.a.Add(t1, t2); dest.b.Add(t3, t4); ...
MulAssemble(ms, dest) ==
    [ms EXCEPT ![dest] = [a |-> BigAdd(ms.t1, ms.t2), b |-> BigAdd(ms.t3, ms.t4),
                          c |-> BigAdd(ms.t5, ms.t6), d |-> BigAdd(ms.t7, ms.t8)]]

\* A faulty squaring without its sum: aPlusD := state.t5 is read by the last
\* product as the state holds it, aPlusD.Add(mat.a, mat.d) left out.
SquarePrepareSkipped(ms, mat) == ms

\* squareSymmetricMatrix: aPlusD.Add(mat.a, mat.d), with aPlusD := state.t5
SquarePrepare(ms, mat) ==
    [ms EXCEPT !.t5 = BigAdd(ms[mat].a, ms[mat].d)]

\* Faulty closures: the last product leaves d out, bTimesAPlusD.Mul(mat.b, mat.a)
SquareTaskNoSum(ms, mat, t) ==
    CASE t = "S1" -> [ms EXCEPT !.t1 = BigMul(ms[mat].a, ms[mat].a)]
      [] t = "S2" -> [ms EXCEPT !.t2 = BigMul(ms[mat].b, ms[mat].b)]
      [] t = "S3" -> [ms EXCEPT !.t3 = BigMul(ms[mat].d, ms[mat].d)]
      [] t = "S4" -> [ms EXCEPT !.t4 = BigMul(ms[mat].b, ms[mat].a)]

\* squareSymmetricMatrix: the closures of the tasks slice, in order
SquareTask(ms, mat, t) ==
    CASE t = "S1" -> [ms EXCEPT !.t1 = BigMul(ms[mat].a, ms[mat].a)]
      [] t = "S2" -> [ms EXCEPT !.t2 = BigMul(ms[mat].b, ms[mat].b)]
      [] t = "S3" -> [ms EXCEPT !.t3 = BigMul(ms[mat].d, ms[mat].d)]
      [] t = "S4" -> [ms EXCEPT !.t4 = BigMul(ms[mat].b, ms.t5)]

\* A faulty assembly that sets c from another temporary: dest.c.Set(bSquared)
SquareAssembleAsymmetric(ms, dest) ==
    [ms EXCEPT ![dest] = [a |-> BigAdd(ms.t1, ms.t2), b |-> ms.t4,
                          c |-> ms.t2, d |-> BigAdd(ms.t2, ms.t3)]]

\* squareSymmetricMatrix: dest.a.Add(aSquared, bSquared); dest.b.Set(bTimesAPlusD);
\* dest.c.Set(bTimesAPlusD); dest.d.Add(bSquared, dSquared)
SquareAssemble(ms, dest) ==
    [ms EXCEPT ![dest] = [a |-> BigAdd(ms.t1, ms.t2), b |-> ms.t4,
                          c |-> ms.t4, d |-> BigAdd(ms.t2, ms.t3)]]

\* executeTasks(false, tasks): for _, task := range tasks { task() }
MulSequential(ms, m1, m2) ==
    LET r1 == MulTask(ms, m1, m2, "M1")
        r2 == MulTask(r1, m1, m2, "M2")
        r3 == MulTask(r2, m1, m2, "M3")
        r4 == MulTask(r3, m1, m2, "M4")
        r5 == MulTask(r4, m1, m2, "M5")
        r6 == MulTask(r5, m1, m2, "M6")
        r7 == MulTask(r6, m1, m2, "M7")
    IN  MulTask(r7, m1, m2, "M8")

SquareSequential(ms, mat) ==
    SquareTask(SquareTask(SquareTask(SquareTask(ms, mat, "S1"), mat, "S2"), mat, "S3"),
               mat, "S4")

\* shouldRunInParallel := useParallel && m1.a.BitLen() > threshold
\* (multiplyMatrices: m1; squareSymmetricMatrix: mat)
MXUseParallel(ms, m, useParallel, threshold) ==
    useParallel /\ BigBitLen(ms[m].a) > threshold


(***************************************************************************)
(* matrix.go: MatrixExponentiation.CalculateCore.                          *)
(***************************************************************************)
\* if n == 0 { return big.NewInt(0), nil }; state := acquireMatrixState();
\* defer releaseMatrixState(state); exponent := n - 1; numBits := bits.Len64(exponent);
\* resultMatrix := state.res; powerMatrix := state.p; tempMatrix := state.tempMatrix
MXEnter ==
    /\ pc = "core_entry"
    /\ call.engine = "MatrixExp"
    /\ IF loc.n = 0
       THEN /\ newInts' = Append(newInts, BigOfInt(0))
            /\ CoreReturn(NewIntRef, BigOfInt(0), "nil", obs)
            /\ obs' = obs
            /\ UNCHANGED <<matrixStatePool, mxObj, loc>>
       ELSE /\ \E id \in PoolGet(matrixStatePool, mxObj) :
                  /\ matrixStatePool' = matrixStatePool \ {id}
                  /\ mxObj' = acquireMatrixState(mxObj, id)
                  /\ loc' = [loc EXCEPT
                        !.s = id, !.exponent = loc.n - 1,
                        !.numBits = Len64(loc.n - 1), !.i = 0,
                        !.useParallel = (numCPU > 1),
                        !.resultMatrix = "res", !.powerMatrix = "p",
                        !.tempMatrix = "tempMatrix"]
            /\ pc' = "mx_top"
            /\ obs' = [obs EXCEPT !.acquired = @ + 1]
            /\ UNCHANGED <<newInts, coreRet, held>>
    /\ UNCHANGED <<numCPU, harness, callsLeft, ctxErr, fibLookupTable, statePool, fdObj,
                   call, pending>>
    /\ UNCHANGED <<progressChan, display, workers, app>>

\* A faulty loop whose state is released at the end of the function instead of
\* by a defer: the return on cancellation leaves it checked out.
MXLoopTopNoRelease ==
    /\ pc = "mx_top"
    /\ loc.i < loc.numBits
    /\ IF Cancelled
       THEN /\ CoreReturn(NilRef, BigZero, ctxErr, obs)
            /\ matrixStatePool' = matrixStatePool
            /\ obs' = obs
            /\ NoReport
       ELSE \* if reporter != nil { reporter(float64(i) * invNumBits) }
            /\ pc' = "mx_body"
            /\ LET r == reporter(progressChan, display, call.calcIndex,
                                 MXProgress(loc.numBits, loc.i))
               IN  /\ Report(r)
                   /\ obs' = Reported([obs EXCEPT !.iter = @ + 1], r)
            /\ UNCHANGED <<matrixStatePool, coreRet, held>>
    /\ UNCHANGED <<numCPU, harness, callsLeft, ctxErr, fibLookupTable, statePool, fdObj,
                   mxObj, newInts, call, loc, pending>>
    /\ UNCHANGED <<workers, app>>

\* Top of an iteration (i < numBits):
\* if err := ctx.Err(); err != nil { return nil, err }, with the deferred release.
MXLoopTop ==
    /\ pc = "mx_top"
    /\ loc.i < loc.numBits
    /\ IF Cancelled
       THEN /\ CoreReturn(NilRef, BigZero, ctxErr, AfterRelease(obs))
            /\ matrixStatePool' = releaseMatrixState(matrixStatePool, loc.s)
            /\ obs' = AfterRelease(obs)
            /\ NoReport
       ELSE \* if reporter != nil { reporter(float64(i) * invNumBits) }
            /\ pc' = "mx_body"
            /\ LET r == reporter(progressChan, display, call.calcIndex,
                                 MXProgress(loc.numBits, loc.i))
               IN  /\ Report(r)
                   /\ obs' = Reported([obs EXCEPT !.iter = @ + 1], r)
            /\ UNCHANGED <<matrixStatePool, coreRet, held>>
    /\ UNCHANGED <<numCPU, harness, callsLeft, ctxErr, fibLookupTable, statePool, fdObj,
                   mxObj, newInts, call, loc, pending>>
    /\ UNCHANGED <<workers, app>>

\* A faulty STEP 1 that only moves the result: resultMatrix = tempMatrix, the
\* buffer keeping its reference.
MXMultiplyHalfSwap ==
    /\ pc = "mx_body"
    /\ BitAt(loc.exponent, loc.i) = 1
    /\ LET ms == mxObj[loc.s]
       IN  IF MXUseParallel(ms, loc.resultMatrix, loc.useParallel, loc.threshold)
           THEN /\ pending' = MulTasks
                /\ pc' = "mx_mul_wait"
                /\ obs' = [obs EXCEPT !.fanouts = @ + 1]
                /\ UNCHANGED <<mxObj, loc>>
           ELSE /\ mxObj' = [mxObj EXCEPT ![loc.s] =
                                MulAssemble(MulSequential(ms, loc.resultMatrix, loc.powerMatrix),
                                            loc.tempMatrix)]
                /\ loc' = [loc EXCEPT !.resultMatrix = loc.tempMatrix]
                /\ obs' = [obs EXCEPT !.muls = @ + 8]
                /\ pc' = "mx_square"
                /\ pending' = pending
    /\ UNCHANGED <<numCPU, harness, callsLeft, ctxErr, fibLookupTable, statePool, fdObj,
                   matrixStatePool, newInts, call, coreRet, held>>
    /\ UNCHANGED <<progressChan, display, workers, app>>


\* STEP 1 when bit i of the exponent is 1:
\* multiplyMatrices(tempMatrix, resultMatrix, powerMatrix, ...) up to the end of
\* executeTasks when it runs sequentially, up to the start of the goroutines
\* otherwise; then resultMatrix, tempMatrix = tempMatrix, resultMatrix.
MXMultiply ==
    /\ pc = "mx_body"
    /\ BitAt(loc.exponent, loc.i) = 1
    /\ LET ms == mxObj[loc.s]
       IN  IF MXUseParallel(ms, loc.resultMatrix, loc.useParallel, loc.threshold)
           THEN /\ pending' = MulTasks
                /\ pc' = "mx_mul_wait"
                /\ obs' = [obs EXCEPT !.fanouts = @ + 1]
                /\ UNCHANGED <<mxObj, loc>>
           ELSE /\ mxObj' = [mxObj EXCEPT ![loc.s] =
                                MulAssemble(MulSequential(ms, loc.resultMatrix, loc.powerMatrix),
                                            loc.tempMatrix)]
                /\ loc' = [loc EXCEPT !.resultMatrix = loc.tempMatrix,
                                      !.tempMatrix = loc.resultMatrix]
                /\ obs' = [obs EXCEPT !.muls = @ + 8]
                /\ pc' = "mx_square"
                /\ pending' = pending
    /\ UNCHANGED <<numCPU, harness, callsLeft, ctxErr, fibLookupTable, statePool, fdObj,
                   matrixStatePool, newInts, call, coreRet, held>>
    /\ UNCHANGED <<progressChan, display, workers, app>>

\* A goroutine of executeTasks runs its task: f(); wg.Done()
MXRunTask(t) ==
    /\ pc \in {"mx_mul_wait", "mx_sq_wait"}
    /\ t \in pending
    /\ mxObj' = [mxObj EXCEPT ![loc.s] =
                    IF pc = "mx_mul_wait"
                    THEN MulTask(mxObj[loc.s], loc.resultMatrix, loc.powerMatrix, t)
                    ELSE SquareTask(mxObj[loc.s], loc.powerMatrix, t)]
    /\ pending' = pending \ {t}
    /\ obs' = [obs EXCEPT !.muls = @ + 1]
    /\ UNCHANGED <<numCPU, harness, callsLeft, ctxErr, fibLookupTable, statePool, fdObj,
                   matrixStatePool, newInts, pc, call, loc, coreRet, held>>
    /\ UNCHANGED <<progressChan, display, workers, app>>

\* multiplyMatrices after wg.Wait(): the additions, then the pointer swap.
MXMultiplyJoin ==
    /\ pc = "mx_mul_wait"
    /\ pending = {}
    /\ mxObj' = [mxObj EXCEPT ![loc.s] = MulAssemble(mxObj[loc.s], loc.tempMatrix)]
    /\ loc' = [loc EXCEPT !.resultMatrix = loc.tempMatrix,
                          !.tempMatrix = loc.resultMatrix]
    /\ pc' = "mx_square"
    /\ UNCHANGED <<numCPU, harness, callsLeft, ctxErr, fibLookupTable, statePool, fdObj,
                   matrixStatePool, newInts, call, pending, coreRet, held, obs>>
    /\ UNCHANGED <<progressChan, display, workers, app>>

\* A faulty STEP 2 that squares the power matrix in the last iteration too.
MXSquareAlways ==
    /\ \/ pc = "mx_square"
       \/ pc = "mx_body" /\ BitAt(loc.exponent, loc.i) = 0
    /\ LET ms == SquarePrepare(mxObj[loc.s], loc.powerMatrix)
       IN  IF loc.i < loc.numBits
           THEN IF MXUseParallel(ms, loc.powerMatrix, loc.useParallel, loc.threshold)
                THEN /\ mxObj' = [mxObj EXCEPT ![loc.s] = ms]
                     /\ pending' = SquareTasks
                     /\ pc' = "mx_sq_wait"
                     /\ obs' = [obs EXCEPT !.fanouts = @ + 1]
                     /\ loc' = loc
                ELSE /\ mxObj' = [mxObj EXCEPT ![loc.s] =
                                     SquareAssemble(SquareSequential(ms, loc.powerMatrix),
                                                    loc.tempMatrix)]
                     /\ loc' = [loc EXCEPT !.powerMatrix = loc.tempMatrix,
                                           !.tempMatrix = loc.powerMatrix,
                                           !.i = @ + 1]
                     /\ obs' = [obs EXCEPT !.muls = @ + 4]
                     /\ pc' = "mx_top"
                     /\ pending' = pending
           ELSE /\ loc' = [loc EXCEPT !.i = @ + 1]
                /\ pc' = "mx_top"
                /\ UNCHANGED <<mxObj, pending, obs>>
    /\ UNCHANGED <<numCPU, harness, callsLeft, ctxErr, fibLookupTable, statePool, fdObj,
                   matrixStatePool, newInts, call, coreRet, held>>
    /\ UNCHANGED <<progressChan, display, workers, app>>

\* STEP 2, reached after STEP 1 or directly when bit i is 0:
\* if i < numBits-1 { squareSymmetricMatrix(tempMatrix, powerMatrix, ...);
\* powerMatrix, tempMatrix = tempMatrix, powerMatrix }; then i++.
MXSquare ==
    /\ \/ pc = "mx_square"
       \/ pc = "mx_body" /\ BitAt(loc.exponent, loc.i) = 0
    /\ LET ms == SquarePrepare(mxObj[loc.s], loc.powerMatrix)
       IN  IF loc.i < loc.numBits - 1
           THEN IF MXUseParallel(ms, loc.powerMatrix, loc.useParallel, loc.threshold)
                THEN /\ mxObj' = [mxObj EXCEPT ![loc.s] = ms]
                     /\ pending' = SquareTasks
                     /\ pc' = "mx_sq_wait"
                     /\ obs' = [obs EXCEPT !.fanouts = @ + 1]
                     /\ loc' = loc
                ELSE /\ mxObj' = [mxObj EXCEPT ![loc.s] =
                                     SquareAssemble(SquareSequential(ms, loc.powerMatrix),
                                                    loc.tempMatrix)]
                     /\ loc' = [loc EXCEPT !.powerMatrix = loc.tempMatrix,
                                           !.tempMatrix = loc.powerMatrix,
                                           !.i = @ + 1]
                     /\ obs' = [obs EXCEPT !.muls = @ + 4]
                     /\ pc' = "mx_top"
                     /\ pending' = pending
           ELSE /\ loc' = [loc EXCEPT !.i = @ + 1]
                /\ pc' = "mx_top"
                /\ UNCHANGED <<mxObj, pending, obs>>
    /\ UNCHANGED <<numCPU, harness, callsLeft, ctxErr, fibLookupTable, statePool, fdObj,
                   matrixStatePool, newInts, call, coreRet, held>>
    /\ UNCHANGED <<progressChan, display, workers, app>>

\* squareSymmetricMatrix after wg.Wait(): the assembly, the pointer swap, i++.
MXSquareJoin ==
    /\ pc = "mx_sq_wait"
    /\ pending = {}
    /\ mxObj' = [mxObj EXCEPT ![loc.s] = SquareAssemble(mxObj[loc.s], loc.tempMatrix)]
    /\ loc' = [loc EXCEPT !.powerMatrix = loc.tempMatrix,
                          !.tempMatrix = loc.powerMatrix,
                          !.i = @ + 1]
    /\ pc' = "mx_top"
    /\ UNCHANGED <<numCPU, harness, callsLeft, ctxErr, fibLookupTable, statePool, fdObj,
                   matrixStatePool, newInts, call, pending, coreRet, held, obs>>
    /\ UNCHANGED <<progressChan, display, workers, app>>

\* A faulty return statement that copies the wrong element:
\* new(big.Int).Set(resultMatrix.b)
MXResultWrongElement(id, resultMatrix) ==
    [ref |-> NewIntRef, alloc |-> <<mxObj[id][resultMatrix].b>>]

\* What the return statement hands out: new(big.Int).Set(resultMatrix.a)
MXResult(id, resultMatrix) == [ref |-> NewIntRef, alloc |-> <<mxObj[id][resultMatrix].a>>]

\* After the loop: return new(big.Int).Set(resultMatrix.a), nil, with the
\* deferred releaseMatrixState(state).
MXReturn ==
    /\ pc = "mx_top"
    /\ loc.i >= loc.numBits
    /\ newInts' = newInts \o MXResult(loc.s, loc.resultMatrix).alloc
    /\ CoreReturn(MXResult(loc.s, loc.resultMatrix).ref,
                  mxObj[loc.s][loc.resultMatrix].a, "nil", AfterRelease(obs))
    /\ matrixStatePool' = releaseMatrixState(matrixStatePool, loc.s)
    /\ obs' = AfterRelease(obs)
    /\ UNCHANGED <<numCPU, harness, callsLeft, ctxErr, fibLookupTable, statePool, fdObj,
                   mxObj, call, loc, pending>>
    /\ UNCHANGED <<progressChan, display, workers, app>>


(***************************************************************************)
(* Reference values.                                                       *)
(***************************************************************************)
\* matrix_test.go, simpleFib: one pass of the loop body, a.Add(a, b); a, b = b, a.
\* seq holds the values of b so far, F(1), F(2), ...
SimpleFibStep(st) ==
    [a |-> st.b, b |-> BigAdd(st.a, st.b), seq |-> Append(st.seq, BigAdd(st.a, st.b))]

RECURSIVE SimpleFibLoop(_, _)
SimpleFibLoop(st, count) ==
    IF count = 0 THEN st
    ELSE LET next == SimpleFibStep(st)
         IN  IF Len(next.seq) > 0 THEN SimpleFibLoop(next, count - 1) ELSE next

\* The values of simpleFib for the indices 0..4*SimpleFibBlock, the loop run in
\* blocks so that the evaluation stays shallow.
SimpleFibBlock == 32

SimpleFibTable ==
    LET q  == SimpleFibBlock
        t0 == [a |-> BigOfInt(0), b |-> BigOfInt(1), seq |-> <<BigOfInt(1)>>]
        t1 == SimpleFibLoop(t0, q - 1)
        t2 == IF Len(t1.seq) = q THEN SimpleFibLoop(t1, q) ELSE t1
        t3 == IF Len(t2.seq) = 2 * q THEN SimpleFibLoop(t2, q) ELSE t2
        t4 == IF Len(t3.seq) = 3 * q THEN SimpleFibLoop(t3, q) ELSE t3
    IN  [i \in 0..(4 * q) |-> IF i = 0 THEN BigOfInt(0) ELSE t4.seq[i]]

\* simpleFib(n): big.NewInt(n) for n <= 1, b after the loop otherwise
simpleFib(n) == IF n <= 1 THEN BigOfInt(n) ELSE SimpleFibTable[n]

\* OptimizedFastDoubling.CalculateCore on one processor: the loop
\* for i := numBits - 1; i >= 0; i-- with the sequential branch in every step.
RECURSIVE FDSequentialLoop(_, _, _)
FDSequentialLoop(s, n, i) ==
    IF i < 0 THEN s
    ELSE LET s1 == FDFinishIteration(FDSequentialMuls(FDCommonTerm(s)), n, i)
         IN  IF Len(s1.f_k.abs) >= 0 THEN FDSequentialLoop(s1, n, i - 1) ELSE s1

FDSequential(n) ==
    FDSequentialLoop(ResetCalculationState(NewCalculationState), n, Len64(n) - 1).f_k

\* MatrixExponentiation.CalculateCore on one processor: one iteration of the
\* loop with executeTasks(false, ...), on the state and the three pointers.
MXSequentialIteration(st, exponent, numBits, i) ==
    LET st1 == IF BitAt(exponent, i) = 1
               THEN [st EXCEPT
                        !.ms = MulAssemble(MulSequential(st.ms, st.resultMatrix,
                                                         st.powerMatrix), st.tempMatrix),
                        !.resultMatrix = st.tempMatrix,
                        !.tempMatrix = st.resultMatrix]
               ELSE st
    IN  IF i < numBits - 1
        THEN [st1 EXCEPT
                 !.ms = SquareAssemble(
                            SquareSequential(SquarePrepare(st1.ms, st1.powerMatrix),
                                             st1.powerMatrix), st1.tempMatrix),
                 !.powerMatrix = st1.tempMatrix,
                 !.tempMatrix = st1.powerMatrix]
        ELSE st1

RECURSIVE MXSequentialLoop(_, _, _, _)
MXSequentialLoop(st, exponent, numBits, i) ==
    IF i >= numBits THEN st
    ELSE LET st1 == MXSequentialIteration(st, exponent, numBits, i)
         IN  IF Len(st1.ms.t1.abs) >= 0
             THEN MXSequentialLoop(st1, exponent, numBits, i + 1)
             ELSE st1

MXSequential(n) ==
    IF n = 0 THEN BigOfInt(0)
    ELSE LET st == MXSequentialLoop(
                      [ms |-> ResetMatrixState(NewMatrixState), resultMatrix |-> "res",
                       powerMatrix |-> "p", tempMatrix |-> "tempMatrix"],
                      n - 1, Len64(n - 1), 0)
         IN  st.ms[st.resultMatrix].a


(***************************************************************************)
(* The progress channel, the concurrent calculations and the application   *)
(* when a run does not use them.                                           *)
(***************************************************************************)

(***************************************************************************)
(* The consumer of the progress channel (the goroutine of the tests,       *)
(* for update := range progressChan, and the display of internal/cli).     *)
(***************************************************************************)
\* The consumer finds the channel empty and waits in its receive.
DisplayWait ==
    /\ harness.consumer
    /\ progressChan.cap >= 0
    /\ progressChan.buf = <<>>
    /\ ~display.waiting
    /\ display' = [display EXCEPT !.waiting = TRUE]
    /\ UNCHANGED <<numCPU, harness, callsLeft, ctxErr, fibLookupTable, statePool, fdObj,
                   matrixStatePool, mxObj, newInts, pc, call, loc, pending, coreRet,
                   held, obs, progressChan, workers, app>>

\* The consumer receives the oldest update of the buffer.
DisplayReceive ==
    /\ harness.consumer
    /\ progressChan.cap >= 0
    /\ progressChan.buf # <<>>
    /\ display' = [display EXCEPT !.received = Append(@, Head(progressChan.buf))]
    /\ progressChan' = [progressChan EXCEPT !.buf = Tail(@)]
    /\ UNCHANGED <<numCPU, harness, callsLeft, ctxErr, fibLookupTable, statePool, fdObj,
                   matrixStatePool, mxObj, newInts, pc, call, loc, pending, coreRet,
                   held, obs, workers, app>>

(***************************************************************************)
(* Concurrent calculations over the pools.  Each one acquires a state from *)
(* the pool of its engine, writes into it as the loops do, and releases    *)
(* it; the steps of different calculations interleave.                     *)
(***************************************************************************)
\* A calculation that holds no state.  got is how Get found the instance the
\* calculation holds: "new", or recycled "clean" or "dirty".
NoWorker == [phase |-> "idle", engine |-> "", s |-> 0, got |-> ""]

\* The baselines of the running values.
FDBaseline(s) == s.f_k = BigOfInt(0) /\ s.f_k1 = BigOfInt(1)
IsMatrix(m, a, b, c, d) ==
    m.a = BigOfInt(a) /\ m.b = BigOfInt(b) /\ m.c = BigOfInt(c) /\ m.d = BigOfInt(d)
MXBaseline(s) == IsMatrix(s.res, 1, 0, 0, 1) /\ IsMatrix(s.p, 1, 1, 1, 0)

GotFD(id) == IF id > Len(fdObj) THEN "new"
             ELSE IF FDBaseline(fdObj[id]) THEN "clean" ELSE "dirty"
GotMX(id) == IF id > Len(mxObj) THEN "new"
             ELSE IF MXBaseline(mxObj[id]) THEN "clean" ELSE "dirty"

\* The values a calculation leaves in its state, as the pooling tests write
\* them: s1.f_k.SetInt64(100), s1.f_k1.SetInt64(200); s1.res.a.SetInt64(99),
\* s1.p.a.SetInt64(99).
ScribbleFD(s) == [s EXCEPT !.f_k = BigOfInt(100), !.f_k1 = BigOfInt(200)]
ScribbleMX(s) == [s EXCEPT !.res.a = BigOfInt(99), !.p.a = BigOfInt(99)]

\* s := acquireState() / state := acquireMatrixState() of calculation w.
WorkerAcquire(w, engine) ==
    /\ workers[w].phase = "idle"
    /\ IF engine = "FastDoubling"
       THEN /\ \E id \in PoolGet(statePool, fdObj) :
                  /\ statePool' = statePool \ {id}
                  /\ fdObj' = acquireState(fdObj, id)
                  /\ workers' = [workers EXCEPT ![w] =
                        [phase |-> "acquired", engine |-> engine, s |-> id,
                         got |-> GotFD(id)]]
            /\ UNCHANGED <<matrixStatePool, mxObj>>
       ELSE /\ \E id \in PoolGet(matrixStatePool, mxObj) :
                  /\ matrixStatePool' = matrixStatePool \ {id}
                  /\ mxObj' = acquireMatrixState(mxObj, id)
                  /\ workers' = [workers EXCEPT ![w] =
                        [phase |-> "acquired", engine |-> engine, s |-> id,
                         got |-> GotMX(id)]]
            /\ UNCHANGED <<statePool, fdObj>>
    /\ UNCHANGED <<numCPU, harness, callsLeft, ctxErr, fibLookupTable, newInts, pc, call,
                   loc, pending, coreRet, held, obs, progressChan, display, app>>

\* Calculation w overwrites the running values of the state it holds.
WorkerScribble(w) ==
    /\ workers[w].phase = "acquired"
    /\ IF workers[w].engine = "FastDoubling"
       THEN /\ fdObj' = [fdObj EXCEPT ![workers[w].s] = ScribbleFD(@)]
            /\ UNCHANGED mxObj
       ELSE /\ mxObj' = [mxObj EXCEPT ![workers[w].s] = ScribbleMX(@)]
            /\ UNCHANGED fdObj
    /\ workers' = [workers EXCEPT ![w].phase = "dirty"]
    /\ UNCHANGED <<numCPU, harness, callsLeft, ctxErr, fibLookupTable, statePool,
                   matrixStatePool, newInts, pc, call, loc, pending, coreRet, held, obs,
                   progressChan, display, app>>

\* releaseState(s) / releaseMatrixState(state) of calculation w.
WorkerRelease(w) ==
    /\ workers[w].phase \in {"acquired", "dirty"}
    /\ IF workers[w].engine = "FastDoubling"
       THEN /\ statePool' = releaseState(statePool, workers[w].s)
            /\ UNCHANGED matrixStatePool
       ELSE /\ matrixStatePool' = releaseMatrixState(matrixStatePool, workers[w].s)
            /\ UNCHANGED statePool
    /\ workers' = [workers EXCEPT ![w] = NoWorker]
    /\ UNCHANGED <<numCPU, harness, callsLeft, ctxErr, fibLookupTable, fdObj, mxObj,
                   newInts, pc, call, loc, pending, coreRet, held, obs, progressChan,
                   display, app>>


(***************************************************************************)
(* cmd/fibcalc/main.go: the registry of calculators and run.               *)
(* The goroutines of executeCalculations are run one after the other, in   *)
(* any order; the consumer of the progress channel receives when the       *)
(* channel is closed.                                                      *)
(***************************************************************************)
ExitSuccess == 0

ExitErrorGeneric == 1

ExitErrorTimeout == 2

ExitErrorMismatch == 3

ExitErrorCanceled == 130

ProgressBufferMultiplier == 10

\* The error value of the error a Calculate of the package returns.
ErrorOf(e) == IF e = "nil" THEN <<>> ELSE <<e>>

\* errors.Is(err, target)
ErrorsIs(err, target) == \E k \in DOMAIN err : err[k] = target

\* A faulty factory without the nil check: return &FibCalculator{core: core}
NewCalculatorNoCheck(core) ==
    [panic |-> FALSE, calc |-> [NoCalculator EXCEPT !.kind = "FibCalculator", !.core = core]]

\* NewCalculator(core): panics on a nil core, returns &FibCalculator{core: core}
\* otherwise.
NewCalculator(core) ==
    IF core = "nil"
    THEN [panic |-> TRUE, calc |-> NoCalculator]
    ELSE [panic |-> FALSE,
          calc |-> [NoCalculator EXCEPT !.kind = "FibCalculator", !.core = core]]

\* A faulty goroutine that hands the error of its calculation to the group:
\* return err
goroutineReturnErr(err) == err

\* What the function given to g.Go returns once the result is stored:
\* return nil, whatever the calculation returned.
goroutineReturn(err) == <<>>

\* The context of errgroup.WithContext(ctx) after a goroutine of the group
\* returned ret: the first non-nil error cancels it.
groupContext(ctx, ret) == IF ret # <<>> /\ ctx = "nil" THEN "Canceled" ELSE ctx

\* (*mockCalculator).Calculate with the context in state ctx.
mockCalculate(m, ctx) ==
    IF m.returnError # <<>> THEN [Result |-> NilRef, Err |-> m.returnError]
    ELSE IF ctx # "nil" THEN [Result |-> NilRef, Err |-> ErrorOf(ctx)]
    ELSE [Result |-> m.returnValue, Err |-> <<>>]

\* getSortedCalculatorKeys()
getSortedCalculatorKeys == <<"fast", "matrix">>

\* getCalculatorsToRun(config)
getCalculatorsToRun(registry, algo) ==
    IF algo = "all"
    THEN [i \in DOMAIN getSortedCalculatorKeys |-> registry[getSortedCalculatorKeys[i]]]
    ELSE <<registry[algo]>>

\* A faulty mapping that compares the error itself, err == context.Canceled,
\* instead of using errors.Is.
handleCalculationErrorNoUnwrap(err) ==
    IF err = <<>> THEN ExitSuccess
    ELSE IF err = <<"DeadlineExceeded">> THEN ExitErrorTimeout
    ELSE IF err = <<"Canceled">> THEN ExitErrorCanceled
    ELSE ExitErrorGeneric

\* handleCalculationError(err, ...): the exit code of an error.
handleCalculationError(err) ==
    IF err = <<>> THEN ExitSuccess
    ELSE IF ErrorsIs(err, "DeadlineExceeded") THEN ExitErrorTimeout
    ELSE IF ErrorsIs(err, "Canceled") THEN ExitErrorCanceled
    ELSE ExitErrorGeneric

\* The less function of the sort of analyzeComparisonResults: successes first,
\* then by duration.
ResultLess(a, b) ==
    IF (a.Err = <<>>) # (b.Err = <<>>) THEN a.Err = <<>> ELSE a.Duration < b.Duration

\* The orders sort.Slice may leave the results in: any permutation that the
\* less function does not contradict (the sort is not stable).
SortedOrders(results) ==
    {p \in [DOMAIN results -> DOMAIN results] :
        /\ \A i, j \in DOMAIN results : i # j => p[i] # p[j]
        /\ \A i, j \in DOMAIN results : i < j => ~ResultLess(results[p[j]], results[p[i]])}

\* The least element of a non-empty set of positions.
FirstOf(S) == CHOOSE k \in S : \A j \in S : k <= j

\* A faulty analysis that fails as soon as one calculator failed.
analyzeComparisonResultsAnyFailure(sorted) ==
    LET failures == {k \in DOMAIN sorted : sorted[k].Err # <<>>}
        successes == DOMAIN sorted \ failures
    IN  IF failures # {} THEN handleCalculationError(sorted[FirstOf(failures)].Err)
        ELSE IF \E k \in successes :
                   BigCmp(Deref(sorted[k].Result), Deref(sorted[FirstOf(successes)].Result)) # 0
             THEN ExitErrorMismatch
             ELSE ExitSuccess

\* analyzeComparisonResults(results, ...) after its sort: firstError and
\* firstValidResult are those of the first failure and the first success in
\* sorted order.
analyzeComparisonResults(sorted) ==
    LET failures == {k \in DOMAIN sorted : sorted[k].Err # <<>>}
        successes == DOMAIN sorted \ failures
    IN  IF successes = {} THEN handleCalculationError(sorted[FirstOf(failures)].Err)
        ELSE IF \E k \in successes :
                   BigCmp(Deref(sorted[k].Result), Deref(sorted[FirstOf(successes)].Result)) # 0
             THEN ExitErrorMismatch
             ELSE ExitSuccess

\* The package variable calculatorRegistry is initialised with
\* NewCalculator(core) for the two keys, then init checks that no entry is nil.
RegistryInit(fastCore, matrixCore) ==
    /\ app.phase = "none"
    /\ LET a == NewCalculator(fastCore)
           b == NewCalculator(matrixCore)
       IN  app' = IF a.panic \/ b.panic \/ a.calc.kind = "nil" \/ b.calc.kind = "nil"
                  THEN [app EXCEPT !.phase = "panicked",
                                   !.cores = [fast |-> fastCore, matrix |-> matrixCore]]
                  ELSE [app EXCEPT !.phase = "ready",
                                   !.cores = [fast |-> fastCore, matrix |-> matrixCore],
                                   !.registry = [fast |-> a.calc, matrix |-> b.calc]]
    /\ UNCHANGED <<numCPU, harness, callsLeft, ctxErr, fibLookupTable, statePool, fdObj,
                   matrixStatePool, mxObj, newInts, pc, call, loc, pending, coreRet,
                   held, obs, progressChan, display, workers>>

\* A test replaces calculatorRegistry["matrix"] by a mockCalculator that
\* returns the value v (big.NewInt(v)) and the error err.
Inject(v, err) ==
    /\ app.phase = "ready"
    /\ ~app.injected
    /\ newInts' = Append(newInts, BigOfInt(v))
    /\ app' = [app EXCEPT !.injected = TRUE,
                          !.registry.matrix =
                              [kind |-> "mock", core |-> "nil",
                               returnValue |-> NewIntRef, returnError |-> err]]
    /\ UNCHANGED <<numCPU, harness, callsLeft, ctxErr, fibLookupTable, statePool, fdObj,
                   matrixStatePool, mxObj, pc, call, loc, pending, coreRet,
                   held, obs, progressChan, display, workers>>

\* run(ctx, config, out) up to the goroutines of executeCalculations: the
\* context of the caller is in state ctx0, the progress channel is made.
RunStart(algo, n, ctx0) ==
    /\ app.phase = "ready"
    /\ LET calcs == getCalculatorsToRun(app.registry, algo)
       IN  /\ app' = [app EXCEPT !.phase = "executing",
                                 !.config = [Algo |-> algo, N |-> n],
                                 !.ctx0 = ctx0,
                                 !.calcs = calcs,
                                 !.results = [i \in DOMAIN calcs |-> NoResult]]
           /\ progressChan' = [cap |-> Len(calcs) * ProgressBufferMultiplier, buf |-> <<>>]
    /\ ctxErr' = ctx0
    /\ UNCHANGED <<numCPU, harness, callsLeft, fibLookupTable, statePool, fdObj,
                   matrixStatePool, mxObj, newInts, pc, call, loc, pending, coreRet,
                   held, obs, display, workers>>

\* The timeout of run passes (context.WithTimeout) or a signal arrives
\* (signal.NotifyContext) while no calculator is in its Calculate.
RunTrigger(e) ==
    /\ app.phase = "executing"
    /\ pc = "idle"
    /\ ctxErr = "nil"
    /\ ctxErr' = e
    /\ app' = [app EXCEPT !.triggered = TRUE]
    /\ UNCHANGED <<numCPU, harness, callsLeft, fibLookupTable, statePool, fdObj,
                   matrixStatePool, mxObj, newInts, pc, call, loc, pending, coreRet,
                   held, obs, progressChan, display, workers>>

\* The goroutine of calculator idx starts.  A mock returns at once, its result
\* is stored, results[idx] = CalculationResult{...}, with a duration d, and the
\* goroutine returns to the group; a FibCalculator is about to be called.
RunGo(idx, d) ==
    /\ app.phase = "executing"
    /\ app.current = 0
    /\ pc = "idle"
    /\ app.results[idx] = NoResult
    /\ IF app.calcs[idx].kind = "mock"
       THEN /\ app' = [app EXCEPT !.results[idx] =
                          [Result |-> mockCalculate(app.calcs[idx], ctxErr).Result,
                           Err |-> mockCalculate(app.calcs[idx], ctxErr).Err,
                           Duration |-> d]]
            /\ ctxErr' = groupContext(ctxErr,
                              goroutineReturn(mockCalculate(app.calcs[idx], ctxErr).Err))
            /\ UNCHANGED callsLeft
       ELSE /\ d = 1
            /\ app' = [app EXCEPT !.current = idx]
            /\ callsLeft' = 1
            /\ UNCHANGED ctxErr
    /\ UNCHANGED <<numCPU, harness, fibLookupTable, statePool, fdObj,
                   matrixStatePool, mxObj, newInts, pc, call, loc, pending, coreRet,
                   held, obs, progressChan, display, workers>>

\* calculator.Calculate(ctx, progressChan, idx, config.N, config.Threshold)
RunCalculate ==
    /\ app.phase = "executing"
    /\ app.current > 0
    /\ Call("Calculate", app.calcs[app.current].core, app.config.N,
            DefaultParallelThreshold, ctxErr)

\* Calculate has returned: results[idx] = CalculationResult{Result: res,
\* Duration: time.Since(startTime), Err: err}, and the goroutine returns to the
\* group.  The program notes whether the context became done during the call.
RunStore(d) ==
    /\ app.phase = "executing"
    /\ app.current > 0
    /\ pc = "idle"
    /\ callsLeft = 0
    /\ held # <<>>
    /\ ctxErr' = groupContext(ctxErr, goroutineReturn(ErrorOf(held[Len(held)].err)))
    /\ app' = [app EXCEPT !.current = 0,
                          !.triggered = @ \/ obs.trigIter >= 0,
                          !.results[app.current] =
                              [Result |-> held[Len(held)].ref,
                               Err |-> ErrorOf(held[Len(held)].err),
                               Duration |-> d]]
    /\ held' = <<>>
    /\ obs' = NoObs
    /\ loc' = NoLocals
    /\ call' = NoCall
    /\ coreRet' = NoRet
    /\ UNCHANGED <<numCPU, harness, callsLeft, fibLookupTable, statePool, fdObj,
                   matrixStatePool, mxObj, newInts, pc, pending, progressChan, display,
                   workers>>

\* The end of run: g.Wait(), close(progressChan), the consumer receives what
\* the channel holds, and the exit code is that of the single result or of
\* analyzeComparisonResults.
RunFinish ==
    /\ app.phase = "executing"
    /\ app.current = 0
    /\ \A i \in DOMAIN app.results : app.results[i] # NoResult
    /\ display' = [display EXCEPT !.received = @ \o progressChan.buf]
    /\ progressChan' = [progressChan EXCEPT !.buf = <<>>]
    /\ IF Len(app.results) = 1
       THEN app' = [app EXCEPT !.phase = "done",
                       !.exit = IF app.results[1].Err # <<>>
                                THEN handleCalculationError(app.results[1].Err)
                                ELSE ExitSuccess]
       ELSE \E p \in SortedOrders(app.results) :
               app' = [app EXCEPT !.phase = "done",
                          !.exit = analyzeComparisonResults(
                                       [i \in DOMAIN app.results |-> app.results[p[i]]])]
    /\ UNCHANGED <<numCPU, harness, callsLeft, ctxErr, fibLookupTable, statePool, fdObj,
                   matrixStatePool, mxObj, newInts, pc, call, loc, pending, coreRet,
                   held, obs, workers>>

(***************************************************************************)
(* Runs.                                                                   *)
(***************************************************************************)
\* Small indices 0..SmallMax are asked for, and the indices around the end of
\* the lookup table, from MaxFibUint64 - 1 to MaxFibUint64 + PastLut.
SmallMax == 3

PastLut == 2

\* The parallel thresholds of a run, in bits: 0 (every step of a machine with
\* several processors is fanned out), ParThreshold (the late steps are), and
\* the default (none is, for these indices).
ParThreshold == 16

\* Machines have 1..MaxCPU processors.
MaxCPU == 2

Inputs == (0..SmallMax) \cup ((MaxFibUint64 - 1)..(MaxFibUint64 + PastLut))

Thresholds == {0, ParThreshold, DefaultParallelThreshold}

InitPackage ==
    /\ fibLookupTable = InitTable
    /\ statePool = {}
    /\ fdObj = <<>>
    /\ matrixStatePool = {}
    /\ mxObj = <<>>
    /\ newInts = <<>>
    /\ pc = "idle"
    /\ call = NoCall
    /\ loc = NoLocals
    /\ pending = {}
    /\ coreRet = NoRet
    /\ held = <<>>
    /\ obs = NoObs
    /\ ctxErr = "nil"

\* The package, a caller that passes no progress channel, no concurrent
\* calculations and no command-line run.
InitProgram ==
    /\ InitPackage
    /\ progressChan = NilChan
    /\ display = NoDisplay
    /\ workers = <<>>
    /\ app = NoApp

\* One call, of either engine, through the facade or directly, on a machine
\* with one or several processors; the context may be done before the call
\* and may become done at any moment of it.
Init ==
    /\ InitProgram
    /\ numCPU \in 1..MaxCPU
    /\ callsLeft = 1
    /\ harness = [inputs |-> Inputs, thresholds |-> Thresholds, entries |-> Entries,
                  engines |-> Engines, ctx0 |-> {"nil"} \cup CtxErrors, cancel |-> TRUE,
                  mutations |-> 0, calcIndex |-> 0,
                  consumer |-> FALSE]

Start ==
    \E entry \in harness.entries, engine \in harness.engines, n \in harness.inputs,
       threshold \in harness.thresholds, ctx0 \in harness.ctx0 :
        Call(entry, engine, n, threshold, ctx0)

Cancel == \E e \in CtxErrors : Trigger(e)

FDTaskRuns == \E t \in FDTasks : FDRunTask(t)

MXTaskRuns == \E t \in MulTasks \cup SquareTasks : MXRunTask(t)

Next ==
    \/ Start
    \/ Cancel
    \/ CalculateReturn
    \/ FDEnter
    \/ FDLoopTop
    \/ FDStep
    \/ FDTaskRuns
    \/ FDJoin
    \/ FDReturn
    \/ MXEnter
    \/ MXLoopTop
    \/ MXMultiply
    \/ MXTaskRuns
    \/ MXMultiplyJoin
    \/ MXSquare
    \/ MXSquareJoin
    \/ MXReturn

Spec == Init /\ [][Next]_vars

\* Sequences of SeqCalls calls, of either engine, through the facade or
\* directly, for the index 0 and the indices around the end of the lookup
\* table, on one processor and with a context that is never done: the later
\* calls take the pooled states the earlier ones released, or new ones.
SeqCalls == 2

BoundaryInputs == (MaxFibUint64 - 1)..(MaxFibUint64 + PastLut)

SeqInputs == {0} \cup BoundaryInputs

InitSeq ==
    /\ InitProgram
    /\ numCPU = 1
    /\ callsLeft = SeqCalls
    /\ harness = [inputs |-> SeqInputs, thresholds |-> {DefaultParallelThreshold},
                  entries |-> Entries, engines |-> Engines, ctx0 |-> {"nil"},
                  cancel |-> FALSE, mutations |-> 0, calcIndex |-> 0,
                  consumer |-> FALSE]

NextSeq ==
    \/ Start
    \/ CalculateReturn
    \/ FDEnter
    \/ FDLoopTop
    \/ FDStep
    \/ FDReturn
    \/ MXEnter
    \/ MXLoopTop
    \/ MXMultiply
    \/ MXSquare
    \/ MXReturn

SpecSeq == InitSeq /\ [][NextSeq]_vars

\* Sequences of SeqCalls + 1 calls of Calculate for the indices around the end
\* of the lookup table.

InitBoundary ==
    /\ InitProgram
    /\ numCPU = 1
    /\ callsLeft = SeqCalls + 1
    /\ harness = [inputs |-> BoundaryInputs, thresholds |-> {DefaultParallelThreshold},
                  entries |-> {"Calculate"}, engines |-> Engines, ctx0 |-> {"nil"},
                  cancel |-> FALSE, mutations |-> 0, calcIndex |-> 0,
                  consumer |-> FALSE]

SpecBoundary == InitBoundary /\ [][NextSeq]_vars

\* One call of Calculate for every index of the lookup table and the first
\* one past it, of either engine, on one processor, under a context that is
\* already done when the call is made (cancelled or past its deadline), or
\* live, and then done at any moment of the call or never.
FastInputs == 0..(MaxFibUint64 + 1)

InitFast ==
    /\ InitProgram
    /\ numCPU = 1
    /\ callsLeft = 1
    /\ harness = [inputs |-> FastInputs, thresholds |-> {DefaultParallelThreshold},
                  entries |-> {"Calculate"}, engines |-> Engines,
                  ctx0 |-> {"nil"} \cup CtxErrors, cancel |-> TRUE,
                  mutations |-> 0, calcIndex |-> 0,
                  consumer |-> FALSE]

NextFast ==
    \/ Start
    \/ Cancel
    \/ CalculateReturn
    \/ FDEnter
    \/ FDLoopTop
    \/ FDStep
    \/ FDReturn
    \/ MXEnter
    \/ MXLoopTop
    \/ MXMultiply
    \/ MXSquare
    \/ MXReturn

SpecFast == InitFast /\ [][NextFast]_vars

\* Sequences of LutCalls calls of lookupSmall, the caller changing each value
\* it received up to MaxMutations times, at any moment.
LutCalls == 2

MaxMutations == 2

LutInputs == {n \in Inputs : n <= MaxFibUint64}

InitLut ==
    /\ InitProgram
    /\ numCPU = 1
    /\ callsLeft = LutCalls
    /\ harness = [inputs |-> LutInputs, thresholds |-> {DefaultParallelThreshold},
                  entries |-> {}, engines |-> {}, ctx0 |-> {"nil"},
                  cancel |-> FALSE, mutations |-> MaxMutations, calcIndex |-> 0,
                  consumer |-> FALSE]

Lookups == \E n \in harness.inputs : Lookup(n)

Mutations == \E k \in DOMAIN held : Mutate(k)

NextLut ==
    \/ Lookups
    \/ Mutations

SpecLut == InitLut /\ [][NextLut]_vars

\* One call with a progress channel, nil, unbuffered or buffered up to
\* MaxChanCap, and a calculator index up to MaxCalcIndex, on one processor
\* and with a context that is never done.  The consumer receives at any
\* moment, during the call and after it, or never.
MaxChanCap == 2

MaxCalcIndex == 1

ProgressInputs == {0, 1, SmallMax, MaxFibUint64, MaxFibUint64 + 1}

InitProgress ==
    /\ InitPackage
    /\ numCPU = 1
    /\ callsLeft = 1
    /\ \E idx \in 0..MaxCalcIndex :
          harness = [inputs |-> ProgressInputs, thresholds |-> {DefaultParallelThreshold},
                     entries |-> Entries, engines |-> Engines,
                     ctx0 |-> {"nil"}, cancel |-> FALSE, mutations |-> 0,
                     calcIndex |-> idx, consumer |-> TRUE]
    /\ \E cap \in (-1)..MaxChanCap : progressChan = [cap |-> cap, buf |-> <<>>]
    /\ display = NoDisplay
    /\ workers = <<>>
    /\ app = NoApp

NextProgress ==
    \/ Start
    \/ CalculateReturn
    \/ FDEnter
    \/ FDLoopTop
    \/ FDStep
    \/ FDReturn
    \/ MXEnter
    \/ MXLoopTop
    \/ MXMultiply
    \/ MXSquare
    \/ MXReturn
    \/ DisplayWait
    \/ DisplayReceive

SpecProgress == InitProgress /\ [][NextProgress]_vars

\* The program: the registry is built, a test may replace the matrix
\* calculator by a mock, and run is called once, for one algorithm or for all,
\* with an index at the end of the lookup table or past it; the context of the
\* caller may be cancelled already, and the timeout or a signal may end it at
\* any moment.  Durations are 1..MaxDuration.
MaxDuration == 2

RunInputs == {MaxFibUint64, MaxFibUint64 + 1}

MockValue == 99999

MockErrors ==
    {<<>>, <<"simulated calculation error">>,
     <<"calculation failed", "DeadlineExceeded">>, <<"calculation failed", "Canceled">>}

InitRun ==
    /\ InitPackage
    /\ numCPU = 1
    /\ callsLeft = 0
    /\ harness = [inputs |-> RunInputs, thresholds |-> {DefaultParallelThreshold},
                  entries |-> {"Calculate"}, engines |-> Engines,
                  ctx0 |-> {"nil", "Canceled"}, cancel |-> TRUE, mutations |-> 0,
                  calcIndex |-> 0, consumer |-> FALSE]
    /\ progressChan = NilChan
    /\ display = NoDisplay
    /\ workers = <<>>
    /\ app = NoApp

Registers ==
    \E fastCore \in {"FastDoubling", "nil"}, matrixCore \in {"MatrixExp", "nil"} :
        RegistryInit(fastCore, matrixCore)

Injects == \E err \in MockErrors : Inject(MockValue, err)

RunStarts ==
    \E algo \in {"fast", "matrix", "all"}, n \in harness.inputs, ctx0 \in harness.ctx0 :
        RunStart(algo, n, ctx0)

RunTriggers == \E e \in CtxErrors : RunTrigger(e)

RunGoes == \E idx \in DOMAIN app.calcs, d \in 1..MaxDuration : RunGo(idx, d)

RunStores == \E d \in 1..MaxDuration : RunStore(d)

NextRun ==
    \/ Registers
    \/ Injects
    \/ RunStarts
    \/ RunTriggers
    \/ RunGoes
    \/ RunCalculate
    \/ RunStores
    \/ RunFinish
    \/ Cancel
    \/ CalculateReturn
    \/ FDEnter
    \/ FDLoopTop
    \/ FDStep
    \/ FDReturn
    \/ MXEnter
    \/ MXLoopTop
    \/ MXMultiply
    \/ MXSquare
    \/ MXReturn

SpecRun == InitRun /\ [][NextRun]_vars

\* The steps of the engines: one direct call of CalculateCore under a context
\* that stays live, on one processor or on MaxCPU, with a threshold that fans
\* out every step or only those on operands past ParThreshold bits, the
\* goroutines of a step running in every order.  The indices are the small
\* ones, two past the lookup table, and SparseIndex, whose exponent n - 1 has
\* its two set bits far apart.
SparseIndex == 66

StepInputs == (0..SmallMax) \cup {SparseIndex, MaxFibUint64 + 1, MaxFibUint64 + PastLut}

InitSteps ==
    /\ InitProgram
    /\ numCPU \in {1, MaxCPU}
    /\ callsLeft = 1
    /\ harness = [inputs |-> StepInputs, thresholds |-> {0, ParThreshold},
                  entries |-> {"CalculateCore"}, engines |-> Engines, ctx0 |-> {"nil"},
                  cancel |-> FALSE, mutations |-> 0, calcIndex |-> 0,
                  consumer |-> FALSE]

NextSteps ==
    \/ Start
    \/ FDEnter
    \/ FDLoopTop
    \/ FDStep
    \/ FDTaskRuns
    \/ FDJoin
    \/ FDReturn
    \/ MXEnter
    \/ MXLoopTop
    \/ MXMultiply
    \/ MXTaskRuns
    \/ MXMultiplyJoin
    \/ MXSquare
    \/ MXSquareJoin
    \/ MXReturn

SpecSteps == InitSteps /\ [][NextSteps]_vars

\* Two direct calls of CalculateCore, one after the other, of either engine:
\* the second may take from the pool the state the first released, with what
\* the first left in its temporaries, or get a new one.  On one processor or
\* on MaxCPU, every step fanned out there, the goroutines of a step running
\* in every order.  The indices are SmallMax, SparseIndex and the first one
\* past the lookup table.
ScratchInputs == {SmallMax, SparseIndex, MaxFibUint64 + 1}

InitScratch ==
    /\ InitProgram
    /\ numCPU \in {1, MaxCPU}
    /\ callsLeft = 2
    /\ harness = [inputs |-> ScratchInputs, thresholds |-> {0},
                  entries |-> {"CalculateCore"}, engines |-> Engines, ctx0 |-> {"nil"},
                  cancel |-> FALSE, mutations |-> 0, calcIndex |-> 0,
                  consumer |-> FALSE]

SpecScratch == InitScratch /\ [][NextSteps]_vars

\* Some goroutine can take a step: a call is running, or the caller has one
\* to issue.  Every step of NextSteps changes the state, so this is
\* ENABLED <<NextSteps>>_vars.
CanStep == pc # "idle" \/ callsLeft > 0

\* The same calls on a scheduler that lets every goroutine that can run take
\* its next step, the calling goroutine and the goroutines of a step: weak
\* fairness of the call, and weak fairness of NextSteps with its enabling
\* condition written out as CanStep.
SpecStepsFair ==
    /\ SpecSteps
    /\ WF_vars(Start)
    /\ (<>[]CanStep => []<><<NextSteps>>_vars)

(***************************************************************************)
(* The two matrix functions on their own, as TestSquareSymmetricMatrix and *)
(* TestMultiplyMatrices call them: on a matrix m, a destination and a      *)
(* matrixState s, with useParallel passed by the caller.  The state holds  *)
(* m in its field p, the destination of the squaring in tempMatrix and     *)
(* the destination of the product in res: three matrices and eight         *)
(* temporaries that are distinct objects, as in the tests.                 *)
(***************************************************************************)
\* The entries of m: 0..MaxEntry
MaxEntry == 3

\* The thresholds passed: 0 as in the tests, and MatThreshold
MatThreshold == 1

\* The symmetric matrices [[a, b], [b, d]] with entries up to MaxEntry
SymmetricMatrices ==
    {[a |-> BigOfInt(x), b |-> BigOfInt(y), c |-> BigOfInt(y), d |-> BigOfInt(z)] :
        x \in 0..MaxEntry, y \in 0..MaxEntry, z \in 0..MaxEntry}

\* s := getMatrixState(); m, and the arguments of the first call
InitMatrix ==
    /\ InitProgram
    /\ numCPU \in {1, MaxCPU}
    /\ callsLeft = 0
    /\ harness = [inputs |-> {}, thresholds |-> {0, MatThreshold}, entries |-> {},
                  engines |-> {}, ctx0 |-> {"nil"}, cancel |-> FALSE, mutations |-> 0,
                  calcIndex |-> 0, consumer |-> FALSE]

\* The test starts: it takes a state and builds m.
TestSetUp ==
    /\ pc = "idle"
    /\ mxObj = <<>>
    /\ \E m \in SymmetricMatrices, threshold \in harness.thresholds,
          useParallel \in BOOLEAN :
          /\ mxObj' = <<[ResetMatrixState(NewMatrixState) EXCEPT !.p = m]>>
          /\ loc' = [NoLocals EXCEPT !.s = 1, !.threshold = threshold,
                                     !.useParallel = useParallel,
                                     !.powerMatrix = "p", !.tempMatrix = "tempMatrix",
                                     !.resultMatrix = "res"]
    /\ pc' = "test_ready"
    /\ obs' = [obs EXCEPT !.acquired = @ + 1]
    /\ UNCHANGED <<numCPU, harness, callsLeft, ctxErr, fibLookupTable, statePool, fdObj,
                   matrixStatePool, newInts, call, pending, coreRet, held>>
    /\ UNCHANGED <<progressChan, display, workers, app>>

\* squareSymmetricMatrix(got, m, s, useParallel, threshold) up to the end of
\* executeTasks when it runs sequentially, up to the start of the goroutines
\* otherwise.
TestSquare ==
    /\ pc = "test_ready"
    /\ LET ms == SquarePrepare(mxObj[loc.s], loc.powerMatrix)
       IN  IF MXUseParallel(ms, loc.powerMatrix, loc.useParallel, loc.threshold)
           THEN /\ mxObj' = [mxObj EXCEPT ![loc.s] = ms]
                /\ pending' = SquareTasks
                /\ pc' = "test_sq_wait"
                /\ obs' = [obs EXCEPT !.fanouts = @ + 1]
           ELSE /\ mxObj' = [mxObj EXCEPT ![loc.s] =
                                SquareAssemble(SquareSequential(ms, loc.powerMatrix),
                                               loc.tempMatrix)]
                /\ pending' = pending
                /\ pc' = "test_squared"
                /\ obs' = [obs EXCEPT !.muls = @ + 4]
    /\ UNCHANGED <<numCPU, harness, callsLeft, ctxErr, fibLookupTable, statePool, fdObj,
                   matrixStatePool, newInts, call, loc, coreRet, held>>
    /\ UNCHANGED <<progressChan, display, workers, app>>

\* A goroutine of executeTasks runs its task: f(); wg.Done()
TestRunTask(t) ==
    /\ pc \in {"test_sq_wait", "test_mul_wait"}
    /\ t \in pending
    /\ mxObj' = [mxObj EXCEPT ![loc.s] =
                    IF pc = "test_mul_wait"
                    THEN MulTask(mxObj[loc.s], loc.powerMatrix, loc.powerMatrix, t)
                    ELSE SquareTask(mxObj[loc.s], loc.powerMatrix, t)]
    /\ pending' = pending \ {t}
    /\ obs' = [obs EXCEPT !.muls = @ + 1]
    /\ UNCHANGED <<numCPU, harness, callsLeft, ctxErr, fibLookupTable, statePool, fdObj,
                   matrixStatePool, newInts, pc, call, loc, coreRet, held>>
    /\ UNCHANGED <<progressChan, display, workers, app>>

TestTaskRuns == \E t \in MulTasks \cup SquareTasks : TestRunTask(t)

\* squareSymmetricMatrix after wg.Wait(): the assembly into got.
TestSquareJoin ==
    /\ pc = "test_sq_wait"
    /\ pending = {}
    /\ mxObj' = [mxObj EXCEPT ![loc.s] = SquareAssemble(mxObj[loc.s], loc.tempMatrix)]
    /\ pc' = "test_squared"
    /\ UNCHANGED <<numCPU, harness, callsLeft, ctxErr, fibLookupTable, statePool, fdObj,
                   matrixStatePool, newInts, call, loc, pending, coreRet, held, obs>>
    /\ UNCHANGED <<progressChan, display, workers, app>>

\* multiplyMatrices(want, m, m, s, useParallel, threshold) on the same state,
\* in either mode, up to the end of executeTasks when it runs sequentially, up
\* to the start of the goroutines otherwise.
TestMultiply ==
    /\ pc = "test_squared"
    /\ \E useParallel \in BOOLEAN :
          /\ loc' = [loc EXCEPT !.useParallel = useParallel]
          /\ LET ms == mxObj[loc.s]
             IN  IF MXUseParallel(ms, loc.powerMatrix, useParallel, loc.threshold)
                 THEN /\ pending' = MulTasks
                      /\ pc' = "test_mul_wait"
                      /\ obs' = [obs EXCEPT !.fanouts = @ + 1]
                      /\ mxObj' = mxObj
                 ELSE /\ mxObj' = [mxObj EXCEPT ![loc.s] =
                                      MulAssemble(MulSequential(ms, loc.powerMatrix,
                                                                loc.powerMatrix),
                                                  loc.resultMatrix)]
                      /\ pending' = pending
                      /\ pc' = "test_done"
                      /\ obs' = [obs EXCEPT !.muls = @ + 8]
    /\ UNCHANGED <<numCPU, harness, callsLeft, ctxErr, fibLookupTable, statePool, fdObj,
                   matrixStatePool, newInts, call, coreRet, held>>
    /\ UNCHANGED <<progressChan, display, workers, app>>

\* multiplyMatrices after wg.Wait(): the additions into want.
TestMultiplyJoin ==
    /\ pc = "test_mul_wait"
    /\ pending = {}
    /\ mxObj' = [mxObj EXCEPT ![loc.s] = MulAssemble(mxObj[loc.s], loc.resultMatrix)]
    /\ pc' = "test_done"
    /\ UNCHANGED <<numCPU, harness, callsLeft, ctxErr, fibLookupTable, statePool, fdObj,
                   matrixStatePool, newInts, call, loc, pending, coreRet, held, obs>>
    /\ UNCHANGED <<progressChan, display, workers, app>>

NextMatrix ==
    \/ TestSetUp
    \/ TestSquare
    \/ TestTaskRuns
    \/ TestSquareJoin
    \/ TestMultiply
    \/ TestMultiplyJoin

SpecMatrix == InitMatrix /\ [][NextMatrix]_vars

(***************************************************************************)
(* cmd/fibcalc/main.go, executeCalculations, with the goroutines it starts *)
(* running concurrently: one per calculator, and the consumer              *)
(* cli.DisplayAggregateProgress.  What a calculator computes is left out   *)
(* here; its goroutine goes through the cancellation checks and the        *)
(* progress reports of FibCalculator.Calculate and of its core, in their   *)
(* order.  The channel has the field closed; workers holds the goroutines  *)
(* of the calculators, display the ProgressState of the consumer, what it  *)
(* has received and what it has printed, app the main goroutine.           *)
(***************************************************************************)
\* A send on a closed channel panics, also inside a select with a default.
chanSend(ch, disp, calcIndex, progress) ==
    IF ch.closed
    THEN [chan |-> ch, display |-> disp, outcome |-> "panic",
          update |-> ProgressUpdate(calcIndex, progress)]
    ELSE reporter(ch, disp, calcIndex, progress)

\* A faulty group whose Wait returns at once.
groupWaitNone(ws) == TRUE

\* g.Wait(): every goroutine started with g.Go has returned
groupWait(ws) == \A i \in DOMAIN ws : ws[i].phase = "returned"

\* idx, calculator := i, calc
capturedIndex(i, len) == i

\* NewProgressState(numCalculators, out): progresses is make([]float64, n)
NewProgressState(numCalculators) ==
    [waiting |-> FALSE, received |-> <<>>,
     numCalculators |-> numCalculators,
     progresses |-> [i \in 0..(numCalculators - 1) |-> 0],
     printed |-> <<>>, ticks |-> 0, done |-> FALSE]

\* (*ProgressState).Update: if index >= 0 && index < len(ps.progresses)
Update(progresses, index, value) ==
    IF index \in DOMAIN progresses THEN [progresses EXCEPT ![index] = value]
    ELSE progresses

RECURSIVE TotalProgress(_, _)
TotalProgress(progresses, k) ==
    IF k < 0 THEN 0 ELSE progresses[k] + TotalProgress(progresses, k - 1)

\* A faulty average that shows a finished run whatever was received.
CalculateAverageForced(progresses, numCalculators) == One

\* (*ProgressState).CalculateAverage: the sum of progresses divided by
\* float64(numCalculators), 0.0 when there is no calculator
CalculateAverage(progresses, numCalculators) ==
    IF numCalculators = 0 THEN 0
    ELSE (2 * TotalProgress(progresses, numCalculators - 1) + numCalculators)
             \div (2 * numCalculators)

\* (*ProgressState).PrintBar(final): the line printed, with its average and
\* whether a line feed follows
PrintBar(disp, final) ==
    [disp EXCEPT !.printed =
        Append(@, [avg |-> CalculateAverage(disp.progresses, disp.numCalculators),
                   final |-> final])]

\* The goroutine of calculator i before its first step.
ExecWorker(engine, n, i, len) ==
    [engine |-> engine, n |-> n, idx |-> capturedIndex(i, len),
     numBits |-> IF engine = "FastDoubling" THEN Len64(n) ELSE Len64(n - 1),
     iter |-> 0, phase |-> "start", err |-> "nil", waited |-> FALSE]

\* The main goroutine outside executeCalculations.
NoExec ==
    [main |-> "idle", results |-> <<>>, closes |-> 0, panicked |-> FALSE]

\* ticks of the ticker the consumer may see
MaxTicks == 1

\* One step of the goroutine of calculator i, which leaves it as next and, when
\* sends, has the reporter send value on the progress channel.
ExecStep(i, next, sends, value) ==
    LET r == IF sends THEN chanSend(progressChan, display, workers[i].idx, value)
             ELSE [chan |-> progressChan, display |-> display, outcome |-> "none"]
    IN  /\ progressChan' = r.chan
        /\ display' = r.display
        /\ workers' = [workers EXCEPT ![i] =
                          IF r.outcome = "blocked" THEN [@ EXCEPT !.waited = TRUE]
                          ELSE IF r.outcome = "panic" THEN [@ EXCEPT !.phase = "panicked"]
                          ELSE next]
        /\ app' = [app EXCEPT !.panicked = @ \/ r.outcome = "panic"]
        /\ UNCHANGED <<numCPU, harness, callsLeft, ctxErr, fibLookupTable, statePool,
                       fdObj, matrixStatePool, mxObj, newInts, pc, call, loc, pending,
                       coreRet, held, obs>>

\* executeCalculations up to g.Wait(): results and the channel are made, a
\* goroutine is started for each calculator, and the consumer.
ExecStart(engines, n, ctx0) ==
    /\ app.main = "idle"
    /\ app' = [app EXCEPT !.main = "g_wait",
                          !.results = [i \in DOMAIN engines |-> <<>>]]
    /\ progressChan' = [cap |-> Len(engines) * ProgressBufferMultiplier, buf |-> <<>>,
                        closed |-> FALSE]
    /\ workers' = [i \in DOMAIN engines |-> ExecWorker(engines[i], n, i - 1, Len(engines))]
    /\ display' = NewProgressState(Len(engines))
    /\ ctxErr' = ctx0
    /\ UNCHANGED <<numCPU, harness, callsLeft, fibLookupTable, statePool, fdObj,
                   matrixStatePool, mxObj, newInts, pc, call, loc, pending, coreRet,
                   held, obs>>

\* The timeout passes or a signal arrives while the calculators run.
ExecTrigger(e) ==
    /\ app.main = "g_wait"
    /\ harness.cancel
    /\ ctxErr = "nil"
    /\ ctxErr' = e
    /\ UNCHANGED <<numCPU, harness, callsLeft, fibLookupTable, statePool, fdObj,
                   matrixStatePool, mxObj, newInts, pc, call, loc, pending, coreRet,
                   held, obs, progressChan, display, workers, app>>

\* calculator.Calculate(ctx, progressChan, idx, ...) starts: for n <= 93
\* reporter(1.0) and the return of the lookup; otherwise the core is entered.
\* The mockCalculator of the tests returns at once and reports nothing.
ExecCalculate(i) ==
    /\ i \in DOMAIN workers
    /\ workers[i].phase = "start"
    /\ IF workers[i].engine = "mock"
       THEN ExecStep(i, [workers[i] EXCEPT !.phase = "calculated"], FALSE, 0)
       ELSE IF workers[i].n <= MaxFibUint64
       THEN ExecStep(i, [workers[i] EXCEPT !.phase = "calculated"], TRUE, One)
       ELSE ExecStep(i, [workers[i] EXCEPT !.phase = "loop"], FALSE, 0)

\* The top of an iteration of the core: the cancellation check, then the
\* progress report (fast doubling: not in the first iteration).
ExecLoopTop(i) ==
    /\ i \in DOMAIN workers
    /\ workers[i].phase = "loop"
    /\ workers[i].iter < workers[i].numBits
    /\ LET w == workers[i]
       IN  IF Cancelled
           THEN ExecStep(i, [w EXCEPT !.phase = "calculated", !.err = ctxErr], FALSE, 0)
           ELSE IF w.engine = "FastDoubling"
                THEN ExecStep(i, [w EXCEPT !.iter = @ + 1], w.iter > 0,
                              FDProgress(w.numBits, w.numBits - 1 - w.iter))
                ELSE ExecStep(i, [w EXCEPT !.iter = @ + 1], TRUE,
                              MXProgress(w.numBits, w.iter))

\* After the loop: fast doubling reports 1.0 and returns, the matrix core
\* returns.
ExecLoopEnd(i) ==
    /\ i \in DOMAIN workers
    /\ workers[i].phase = "loop"
    /\ workers[i].iter = workers[i].numBits
    /\ ExecStep(i, [workers[i] EXCEPT !.phase = "core_done"],
                workers[i].engine = "FastDoubling", One)

\* The safety net of the facade: if err == nil && result != nil { reporter(1.0) }
ExecSafetyNet(i) ==
    /\ i \in DOMAIN workers
    /\ workers[i].phase = "core_done"
    /\ ExecStep(i, [workers[i] EXCEPT !.phase = "calculated"], TRUE, One)

\* results[idx] = CalculationResult{...}; return nil
ExecStore(i) ==
    /\ i \in DOMAIN workers
    /\ workers[i].phase = "calculated"
    /\ workers' = [workers EXCEPT ![i].phase = "returned"]
    /\ app' = [app EXCEPT !.results[workers[i].idx + 1] = Append(@, i - 1)]
    /\ UNCHANGED <<numCPU, harness, callsLeft, ctxErr, fibLookupTable, statePool, fdObj,
                   matrixStatePool, mxObj, newInts, pc, call, loc, pending, coreRet,
                   held, obs, progressChan, display>>

\* _ = g.Wait() returns.
ExecGroupWait ==
    /\ app.main = "g_wait"
    /\ groupWait(workers)
    /\ app' = [app EXCEPT !.main = "close"]
    /\ UNCHANGED <<numCPU, harness, callsLeft, ctxErr, fibLookupTable, statePool, fdObj,
                   matrixStatePool, mxObj, newInts, pc, call, loc, pending, coreRet,
                   held, obs, progressChan, display, workers>>

\* close(progressChan)
ExecClose ==
    /\ app.main = "close"
    /\ progressChan' = [progressChan EXCEPT !.closed = TRUE]
    /\ app' = [app EXCEPT !.main = "display_wait", !.closes = @ + 1,
                          !.panicked = @ \/ progressChan.closed]
    /\ UNCHANGED <<numCPU, harness, callsLeft, ctxErr, fibLookupTable, statePool, fdObj,
                   matrixStatePool, mxObj, newInts, pc, call, loc, pending, coreRet,
                   held, obs, display, workers>>

\* displayWg.Wait() returns; return results
ExecReturn ==
    /\ app.main = "display_wait"
    /\ display.done
    /\ app' = [app EXCEPT !.main = "returned"]
    /\ UNCHANGED <<numCPU, harness, callsLeft, ctxErr, fibLookupTable, statePool, fdObj,
                   matrixStatePool, mxObj, newInts, pc, call, loc, pending, coreRet,
                   held, obs, progressChan, display, workers>>

\* DisplayAggregateProgress receives an update: state.Update(index, value),
\* or, with no calculator, for range progressChan {} drops it.
AggregateReceive ==
    /\ app.main # "idle"
    /\ ~display.done
    /\ progressChan.buf # <<>>
    /\ LET update == Head(progressChan.buf)
       IN  display' = [display EXCEPT
                          !.progresses =
                              IF display.numCalculators <= 0 THEN @
                              ELSE Update(@, update.CalculatorIndex, update.Value)]
    /\ progressChan' = [progressChan EXCEPT !.buf = Tail(@)]
    /\ UNCHANGED <<numCPU, harness, callsLeft, ctxErr, fibLookupTable, statePool, fdObj,
                   matrixStatePool, mxObj, newInts, pc, call, loc, pending, coreRet,
                   held, obs, workers, app>>

\* case <-ticker.C: state.PrintBar(false)
AggregateTick ==
    /\ app.main # "idle"
    /\ ~display.done
    /\ display.numCalculators > 0
    /\ display.ticks < MaxTicks
    /\ display' = [PrintBar(display, FALSE) EXCEPT !.ticks = @ + 1]
    /\ UNCHANGED <<numCPU, harness, callsLeft, ctxErr, fibLookupTable, statePool, fdObj,
                   matrixStatePool, mxObj, newInts, pc, call, loc, pending, coreRet,
                   held, obs, progressChan, workers, app>>

\* The receive finds the channel closed and empty: state.PrintBar(true);
\* return, with the deferred wg.Done(); with no calculator the loop
\* for range progressChan {} ends and the function returns.
AggregateClosed ==
    /\ app.main # "idle"
    /\ ~display.done
    /\ progressChan.closed
    /\ progressChan.buf = <<>>
    /\ display' = IF display.numCalculators <= 0
                  THEN [display EXCEPT !.done = TRUE]
                  ELSE [PrintBar(display, TRUE) EXCEPT !.done = TRUE]
    /\ UNCHANGED <<numCPU, harness, callsLeft, ctxErr, fibLookupTable, statePool, fdObj,
                   matrixStatePool, mxObj, newInts, pc, call, loc, pending, coreRet,
                   held, obs, progressChan, workers, app>>

\* The calculators of a run: none, one engine, both, or one and the mock of
\* the tests; the index is on the fast path, just past the lookup table, or
\* LongIndex, whose reports are more than the channel of one calculator holds.
\* Two engines run together on the fast path.
LongIndex == 1024

ExecInputs == {1, MaxFibUint64 + 1, LongIndex}

ExecCalculators ==
    {<<>>, <<"FastDoubling">>, <<"MatrixExp">>, <<"FastDoubling", "MatrixExp">>,
     <<"FastDoubling", "mock">>, <<"mock", "MatrixExp">>}

InitExec ==
    /\ InitPackage
    /\ numCPU = 1
    /\ callsLeft = 0
    /\ harness = [inputs |-> ExecInputs, thresholds |-> {DefaultParallelThreshold},
                  entries |-> {}, engines |-> Engines, ctx0 |-> {"nil"},
                  cancel |-> TRUE, mutations |-> 0, calcIndex |-> 0, consumer |-> TRUE]
    /\ progressChan = [cap |-> -1, buf |-> <<>>, closed |-> FALSE]
    /\ display = NewProgressState(0)
    /\ workers = <<>>
    /\ app = NoExec

ExecStarts ==
    \E engines \in ExecCalculators, n \in harness.inputs, ctx0 \in harness.ctx0 :
        /\ (\A i \in DOMAIN engines : engines[i] # "mock") /\ Len(engines) > 1
              => n <= MaxFibUint64
        /\ (\E i \in DOMAIN engines : engines[i] = "mock") => n <= MaxFibUint64 + 1
        /\ ExecStart(engines, n, ctx0)

ExecTriggers == \E e \in CtxErrors : ExecTrigger(e)

ExecWorkerSteps ==
    \E i \in DOMAIN workers :
        \/ ExecCalculate(i)
        \/ ExecLoopTop(i)
        \/ ExecLoopEnd(i)
        \/ ExecSafetyNet(i)
        \/ ExecStore(i)

ExecMainSteps == ExecGroupWait \/ ExecClose \/ ExecReturn

AggregateSteps == AggregateReceive \/ AggregateTick \/ AggregateClosed

NextExec ==
    \/ ExecStarts
    \/ ExecTriggers
    \/ ExecWorkerSteps
    \/ ExecMainSteps
    \/ AggregateSteps

SpecExec == InitExec /\ [][NextExec]_vars

\* The Go scheduler lets every goroutine that can run take its next step: the
\* goroutines of the calculators, the main goroutine and the consumer; the
\* caller calls executeCalculations.
SpecExecFair ==
    /\ SpecExec
    /\ WF_vars(ExecStarts)
    /\ WF_vars(ExecWorkerSteps)
    /\ WF_vars(ExecMainSteps)
    /\ WF_vars(AggregateSteps)


(***************************************************************************)
(* internal/cli: DisplayAggregateProgress on its own, as                   *)
(* TestDisplayAggregateProgress runs it: the test makes a channel, starts  *)
(* the consumer for numCalculators calculators, sends updates, closes the  *)
(* channel and waits for the consumer.  held is what the test has sent.    *)
(***************************************************************************)
\* progressChan := make(chan fibonacci.ProgressUpdate, 10)
TestChanCap == 10

\* The updates a test sends before it closes the channel
MaxUpdates == 3

\* numCalculators := 2 in TestDisplayAggregateProgress; the consumer is started
\* for 0..MaxCalculators calculators
MaxCalculators == 2

\* The values sent: 0.25 and 0.50 as in the test, and 1.0
TestValues == {One \div 4, One \div 2, One}

\* wg.Add(1); go DisplayAggregateProgress(&wg, progressChan, numCalculators, &buf)
TestDisplayStart(numCalculators) ==
    /\ app.main = "idle"
    /\ app' = [app EXCEPT !.main = "close"]
    /\ progressChan' = [cap |-> TestChanCap, buf |-> <<>>, closed |-> FALSE]
    /\ display' = NewProgressState(numCalculators)
    /\ UNCHANGED <<numCPU, harness, callsLeft, ctxErr, fibLookupTable, statePool, fdObj,
                   matrixStatePool, mxObj, newInts, pc, call, loc, pending, coreRet,
                   held, obs, workers>>

\* progressChan <- fibonacci.ProgressUpdate{CalculatorIndex: index, Value: value}:
\* a send that waits for room in the channel
TestSend(index, value) ==
    /\ app.main = "close"
    /\ Len(held) < MaxUpdates
    /\ Len(progressChan.buf) < progressChan.cap
    /\ progressChan' = [progressChan EXCEPT !.buf = Append(@, ProgressUpdate(index, value))]
    /\ held' = Append(held, ProgressUpdate(index, value))
    /\ UNCHANGED <<numCPU, harness, callsLeft, ctxErr, fibLookupTable, statePool, fdObj,
                   matrixStatePool, mxObj, newInts, pc, call, loc, pending, coreRet,
                   obs, display, workers, app>>

InitDisplay ==
    /\ InitPackage
    /\ numCPU = 1
    /\ callsLeft = 0
    /\ harness = [inputs |-> {}, thresholds |-> {}, entries |-> {}, engines |-> {},
                  ctx0 |-> {"nil"}, cancel |-> FALSE, mutations |-> 0, calcIndex |-> 0,
                  consumer |-> TRUE]
    /\ progressChan = [cap |-> -1, buf |-> <<>>, closed |-> FALSE]
    /\ display = NewProgressState(0)
    /\ workers = <<>>
    /\ app = NoExec

TestDisplayStarts == \E numCalculators \in 0..MaxCalculators : TestDisplayStart(numCalculators)

\* The indices sent are those of the calculators, and one past them.
TestSends ==
    \E index \in 0..display.numCalculators, value \in TestValues : TestSend(index, value)

NextDisplay ==
    \/ TestDisplayStarts
    \/ TestSends
    \/ ExecClose
    \/ ExecReturn
    \/ AggregateReceive
    \/ AggregateTick
    \/ AggregateClosed

SpecDisplay == InitDisplay /\ [][NextDisplay]_vars


\* MaxWorkers calculations running concurrently over the two pools.
MaxWorkers == 2

InitPool ==
    /\ InitPackage
    /\ numCPU = 1
    /\ callsLeft = 0
    /\ harness = [inputs |-> {}, thresholds |-> {}, entries |-> {}, engines |-> Engines,
                  ctx0 |-> {"nil"}, cancel |-> FALSE, mutations |-> 0, calcIndex |-> 0,
                  consumer |-> FALSE]
    /\ progressChan = NilChan
    /\ display = NoDisplay
    /\ workers = [w \in 1..MaxWorkers |-> NoWorker]
    /\ app = NoApp

Acquires == \E w \in DOMAIN workers, engine \in harness.engines : WorkerAcquire(w, engine)

Scribbles == \E w \in DOMAIN workers : WorkerScribble(w)

Releases == \E w \in DOMAIN workers : WorkerRelease(w)

NextPool ==
    \/ Acquires
    \/ Scribbles
    \/ Releases

SpecPool == InitPool /\ [][NextPool]_vars


(***************************************************************************)
(* Properties of one call (Spec).                                          *)
(***************************************************************************)
\* What the caller has received so far.
Returned == {held[k] : k \in DOMAIN held}

\* The call ran a core: it was a direct call of CalculateCore, or a call of
\* Calculate for an index past the lookup table.
RanCore(h) == h.entry = "CalculateCore" \/ h.n > MaxFibUint64

\* The context was never done during the call.
NotCancelled(h) == h.obs.trigIter < 0

\* C1: with no cancellation, CalculateCore of the fast-doubling engine and of
\* the matrix engine both return exactly F(n), the value of the reference
\* recurrence, for every index n asked for, the small ones 0, 1, 2 included
\* (and therefore return equal values).
C1_CoreReturnsFib ==
    \A h \in Returned :
        (h.entry = "CalculateCore" /\ NotCancelled(h)) =>
            /\ h.err = "nil"
            /\ h.ref # NilRef
            /\ h.val = simpleFib(h.n)

\* A direct call of the matrix engine for the first index past the table has
\* returned F(94).
C1_Witness ==
    \E h \in Returned :
        /\ h.entry = "CalculateCore"
        /\ h.engine = "MatrixExp"
        /\ h.n = MaxFibUint64 + 1
        /\ NotCancelled(h)
        /\ h.val = simpleFib(MaxFibUint64 + 1)

\* The values of both engines when every step runs sequentially.
SequentialValue ==
    [e \in Engines |->
        [n \in Inputs |-> IF e = "FastDoubling" THEN FDSequential(n) ELSE MXSequential(n)]]

\* C2: a core that fans its multiplications out to goroutines returns the
\* value the sequential execution returns, whatever the order in which the
\* goroutines run: each task writes a destination of its own and reads only
\* operands that no task of the batch writes.
C2_ParallelEqualsSequential ==
    \A h \in Returned :
        (RanCore(h) /\ h.err = "nil") => h.val = SequentialValue[h.engine][h.n]

\* A call past the table whose steps were fanned out has returned its value.
C2_Witness ==
    \E h \in Returned :
        /\ RanCore(h)
        /\ h.n > MaxFibUint64
        /\ h.err = "nil"
        /\ h.obs.fanouts > 1
        /\ h.val = SequentialValue[h.engine][h.n]

\* C5: FibCalculator.Calculate never invokes the wrapped core for n <= 93 and
\* returns the lookup-table value with a nil error; for n > 93 it invokes the
\* core exactly once, with the same n and threshold, and returns the core's
\* value and error unchanged.
C5_FacadeDelegation ==
    /\ (call.entry = "Calculate" /\ call.n <= MaxFibUint64) =>
            (pc = "idle" /\ obs.coreCalls = 0)
    /\ (call.entry = "Calculate" /\ call.n > MaxFibUint64 /\ pc # "idle") =>
            (obs.coreCalls = 1 /\ loc.n = call.n /\ loc.threshold = call.threshold)
    /\ \A h \in Returned :
          h.entry = "Calculate" =>
              IF h.n <= MaxFibUint64
              THEN /\ h.obs.coreCalls = 0
                   /\ h.err = "nil"
                   /\ h.ref # NilRef
                   /\ h.val = fibLookupTable[h.n]
              ELSE /\ h.obs.coreCalls = 1
                   /\ h.ref = h.core.ref
                   /\ h.err = h.core.err

\* Calculate has handed back the value its core computed for an index past
\* the lookup table, under the low threshold it was called with.
C5_Witness ==
    \E h \in Returned :
        /\ h.entry = "Calculate"
        /\ h.n > MaxFibUint64
        /\ h.threshold = ParThreshold
        /\ loc.threshold = ParThreshold
        /\ h.err = "nil"
        /\ h.ref = h.core.ref
        /\ h.ref # NilRef

\* C7: when the context is already done at the call of Calculate with
\* n > 93, the call returns the context's error (Canceled or DeadlineExceeded)
\* and a nil result, and no multiplication is executed, for both engines.
C7_DoneBeforeCall ==
    /\ (call.entry = "Calculate" /\ call.n > MaxFibUint64 /\ call.ctx0 # "nil") =>
            (obs.muls = 0 /\ obs.iter = 0)
    /\ \A h \in Returned :
          (h.entry = "Calculate" /\ h.n > MaxFibUint64 /\ h.ctx0 # "nil") =>
              /\ h.err = h.ctx0
              /\ h.ref = NilRef
              /\ h.obs.muls = 0

\* Calculate of the matrix engine, called with a cancelled context, has
\* returned context.Canceled.
C7_Witness ==
    \E h \in Returned :
        /\ h.entry = "Calculate"
        /\ h.engine = "MatrixExp"
        /\ h.n > MaxFibUint64
        /\ h.ctx0 = "Canceled"
        /\ h.err = "Canceled"
        /\ h.ref = NilRef

\* The context became done before or during the call.
Triggered(h) == h.obs.trigIter >= 0

\* C8 as stated: a calculation (n > 93) whose context becomes done at any
\* moment before Calculate returns ends with the cancellation error and not
\* with a value.
C8_AnyTriggerCancels ==
    \A h \in Returned :
        (h.entry = "Calculate" /\ h.n > MaxFibUint64 /\ Triggered(h)) =>
            (h.err \in CtxErrors /\ h.ref = NilRef)

\* C8: a calculation (n > 93) whose context becomes done while the engine has
\* a top-of-iteration check still to make ends with the context's error and
\* not with a value; when the context becomes done later (during the last
\* iteration, or between the return of the core and the return of Calculate)
\* nothing looks at it any more and Calculate returns F(n) with a nil error.
C8_TriggerBeforeLastCheckCancels ==
    \A h \in Returned :
        (h.entry = "Calculate" /\ h.n > MaxFibUint64 /\ Triggered(h)) =>
            IF h.obs.trigLeft > 0
            THEN h.err \in CtxErrors /\ h.err = h.ctx /\ h.ref = NilRef
            ELSE h.err = "nil" /\ h.ref # NilRef /\ h.val = simpleFib(h.n)

\* Calculate has returned the context's error after the context became done
\* in the middle of the computation.
C8_Witness ==
    \E h \in Returned :
        /\ h.entry = "Calculate"
        /\ h.n > MaxFibUint64
        /\ h.ctx0 = "nil"
        /\ h.obs.trigIter >= 1
        /\ h.obs.trigLeft >= 1
        /\ h.err \in CtxErrors
        /\ h.ref = NilRef

\* The multiplications of one iteration of an engine's loop.
StepMuls(engine) ==
    IF engine = "FastDoubling" THEN Cardinality(FDTasks)
    ELSE Cardinality(MulTasks) + Cardinality(SquareTasks)

\* C9: once the context is done while an engine's loop is running, no further
\* top-of-iteration check passes: at most the multiplications of the step in
\* progress are executed after that moment, no later iteration is started, and
\* the next check makes the engine return the context's error.
C9_StopsAtNextCheck ==
    /\ obs.trigIter >= 0 =>
          /\ obs.iter = obs.trigIter
          /\ obs.muls - obs.trigMuls <= StepMuls(call.engine)
    /\ \A h \in Returned :
          (RanCore(h) /\ h.obs.trigLeft > 0) =>
              /\ h.err = h.ctx
              /\ h.err \in CtxErrors
              /\ h.ref = NilRef
              /\ h.obs.iter = h.obs.trigIter

\* The context became done while the goroutines of a step were running; the
\* step was completed and the engine returned the error at the next check.
C9_Witness ==
    \E h \in Returned :
        /\ RanCore(h)
        /\ h.obs.trigIter >= 1
        /\ h.obs.fanouts >= 1
        /\ h.obs.muls > h.obs.trigMuls
        /\ h.obs.iter = h.obs.trigIter
        /\ h.err \in CtxErrors

\* C10: every call of Calculate returns either (F(n), nil) or (nil, the
\* context's error): never a value with an error, never nil without an error,
\* never a value other than F(n), and no error other than the context's.
C10_ValueOrContextError ==
    \A h \in Returned :
        h.entry = "Calculate" =>
            \/ h.err = "nil" /\ h.ref # NilRef /\ h.val = simpleFib(h.n)
            \/ h.err \in CtxErrors /\ h.err = h.ctx /\ h.ref = NilRef

\* Calculate has returned the deadline error and no value after part of the
\* multiplications had been done.
C10_Witness ==
    \E h \in Returned :
        /\ h.entry = "Calculate"
        /\ h.err = "DeadlineExceeded"
        /\ h.ref = NilRef
        /\ h.obs.muls > 0

(***************************************************************************)
(* Properties of sequences of calls (SpecSeq, SpecBoundary, SpecLut).      *)
(***************************************************************************)
\* C3: a value returned by Calculate or CalculateCore is never changed by a
\* later calculation, even one that takes the same pooled state again: the
\* pointer returned leads to a new integer, no integer of a pooled state or of
\* the table and none returned before, and that integer keeps the value it had
\* when the call returned.
C3_ReturnedValueIsACopy ==
    \A k \in DOMAIN held :
        held[k].ref # NilRef =>
            /\ held[k].ref.kind = "new"
            /\ Deref(held[k].ref) = held[k].val
            /\ \A j \in DOMAIN held : j # k => held[j].ref # held[k].ref

\* Two calculations of the same engine have run one after the other on the
\* one pooled state there is, for different indices past the table, and the
\* first value is still what it was.
C3_Witness ==
    /\ Len(held) >= 2
    /\ held[1].engine = held[2].engine
    /\ held[1].n > MaxFibUint64
    /\ held[2].n > MaxFibUint64
    /\ held[1].n # held[2].n
    /\ Len(fdObj) + Len(mxObj) = 1
    /\ held[2].err = "nil"
    /\ Deref(held[1].ref) = simpleFib(held[1].n)

\* C4: after any sequence of lookupSmall calls and of changes made by the
\* callers to the values they received, every entry i of the table, 0..93,
\* still equals F(i), and every lookupSmall(i) returned F(i) in a new integer:
\* neither the table's entry nor a value returned before.
C4_TableKeepsFib ==
    /\ \A i \in 0..MaxFibUint64 : fibLookupTable[i] = simpleFib(i)
    /\ \A k \in DOMAIN held :
          held[k].entry = "lookupSmall" =>
              /\ held[k].val = simpleFib(held[k].n)
              /\ held[k].ref.kind = "new"
              /\ \A j \in DOMAIN held : j # k => held[j].ref # held[k].ref

\* The caller changed the value of a first lookup of the last entry; a second
\* lookup of that entry, made after the change, returned F(93).
C4_Witness ==
    /\ Len(held) >= 2
    /\ held[1].n = MaxFibUint64
    /\ held[2].n = MaxFibUint64
    /\ held[1].muts > 0
    /\ held[2].mutsBefore > 0
    /\ Deref(held[1].ref) # held[1].val
    /\ held[2].val = simpleFib(MaxFibUint64)

\* The calls of Calculate that returned a value.
Calculated == {h \in Returned : h.entry = "Calculate" /\ h.err = "nil"}

\* C6: the results of Calculate are continuous across the end of the lookup
\* table: Calculate(93) is the last entry of the table, and for the indices
\* past it (94, 95, ...), whichever engine serves them,
\* Calculate(n) = Calculate(n-1) + Calculate(n-2).
C6_ContinuousAcrossCutoff ==
    \A h \in Calculated :
        /\ h.n = MaxFibUint64 => h.val = fibLookupTable[MaxFibUint64]
        /\ h.n > MaxFibUint64 =>
              \A p, q \in Calculated :
                  (p.n = h.n - 1 /\ q.n = h.n - 2) => h.val = BigAdd(p.val, q.val)

\* Calculate(95) of one engine, Calculate(94) of the other and Calculate(93)
\* have returned, and the first is the sum of the two others.
C6_Witness ==
    \E h, p, q \in Calculated :
        /\ h.n = MaxFibUint64 + 2
        /\ p.n = MaxFibUint64 + 1
        /\ q.n = MaxFibUint64
        /\ h.engine # p.engine
        /\ h.val = BigAdd(p.val, q.val)

\* The core is between its acquire and its return.
InCore == pc \in {"fd_top", "fd_body", "fd_wait",
                  "mx_top", "mx_body", "mx_mul_wait", "mx_square", "mx_sq_wait"}

\* The instances checked out of the two pools.
CheckedOutFD == (1..Len(fdObj)) \ statePool
CheckedOutMX == (1..Len(mxObj)) \ matrixStatePool

\* C11: every state a calculation acquires from a pool is released exactly
\* once, on the successful path and on the cancellation path alike: while a core
\* runs it holds the one instance it acquired and has not released it, and once
\* the call has returned its releases equal its acquires and no instance is
\* left checked out of either pool.
C11_ReleasedExactlyOnce ==
    /\ obs.released <= obs.acquired
    /\ obs.acquired <= 1
    /\ InCore =>
        /\ obs.acquired = 1 /\ obs.released = 0
        /\ IF call.engine = "FastDoubling"
           THEN CheckedOutFD = {loc.s} /\ CheckedOutMX = {}
           ELSE CheckedOutMX = {loc.s} /\ CheckedOutFD = {}
    /\ ~InCore =>
        /\ obs.released = obs.acquired
        /\ CheckedOutFD = {} /\ CheckedOutMX = {}
    /\ \A h \in Returned :
        /\ h.obs.released = h.obs.acquired
        /\ (RanCore(h) /\ (h.engine = "FastDoubling" \/ h.n > 0)) => h.obs.acquired = 1

\* The matrix engine has returned on cancellation in the middle of its loop,
\* having released the state it acquired.
C11_Witness ==
    /\ pc = "idle"
    /\ \E h \in Returned :
        /\ h.err # "nil" /\ h.obs.iter > 0 /\ h.engine = "MatrixExp"
        /\ h.obs.acquired = 1 /\ h.obs.released = 1
        /\ CheckedOutMX = {} /\ Len(mxObj) > 0

\* The calculations that hold a state.
Holders == {w \in DOMAIN workers : workers[w].phase # "idle"}

\* C12: after any sequence of acquires, arbitrary mutations and releases, a
\* state as its acquire returned it, new or recycled, has its running values at
\* the baseline: (f_k, f_k1) = (0, 1) for fast doubling, res = identity and
\* p = Q = [[1,1],[1,0]] for matrix exponentiation.
C12_AcquireReturnsBaseline ==
    \A w \in Holders :
        workers[w].phase = "acquired" =>
            IF workers[w].engine = "FastDoubling"
            THEN FDBaseline(fdObj[workers[w].s])
            ELSE MXBaseline(mxObj[workers[w].s])

\* Two calculations have just acquired, one of each engine, recycled states
\* that were released with other values in them.
C12_Witness ==
    \E w, x \in Holders :
        /\ workers[w].phase = "acquired" /\ workers[w].engine = "FastDoubling"
        /\ workers[w].got = "dirty"
        /\ workers[x].phase = "acquired" /\ workers[x].engine = "MatrixExp"
        /\ workers[x].got = "dirty"

\* C13: no state instance is held by two concurrent calculations at the same
\* time, of the same engine or not: an instance held is in no pool, and no
\* other calculation of its engine holds it (the two engines have separate
\* pools and instances).
C13_ExclusiveOwnership ==
    \A w \in Holders :
        /\ IF workers[w].engine = "FastDoubling"
           THEN workers[w].s \in 1..Len(fdObj) /\ workers[w].s \notin statePool
           ELSE workers[w].s \in 1..Len(mxObj) /\ workers[w].s \notin matrixStatePool
        /\ \A x \in Holders :
             (x # w /\ workers[x].engine = workers[w].engine) => workers[x].s # workers[w].s

\* Two calculations of the same engine hold states at the same time, one of
\* them recycled from the pool while the other was running.
C13_Witness ==
    \E w, x \in Holders :
        /\ w # x
        /\ workers[w].engine = workers[x].engine
        /\ workers[w].phase = "dirty"
        /\ workers[x].got # "new"

(***************************************************************************)
(* Properties of progress reporting (SpecProgress).                        *)
(***************************************************************************)
\* The values of a sequence of updates never go down.
NonDecreasing(us) == \A k \in 2..Len(us) : us[k - 1].Value <= us[k].Value

\* The updates of a sequence of reports.
UpdatesOf(reports) == [k \in DOMAIN reports |-> reports[k].update]

\* The updates the channel has delivered, in order: those received and those
\* waiting in the buffer.
Delivered == display.received \o progressChan.buf

\* The successful calls of Calculate made with a progress channel.
Succeeded ==
    {h \in Returned : h.entry = "Calculate" /\ h.err = "nil" /\ progressChan.cap >= 0}

\* The core of the call ran by itself, called directly with a progress channel,
\* and succeeded.
CoreSucceeded ==
    {h \in Returned : h.entry = "CalculateCore" /\ h.err = "nil" /\ progressChan.cap >= 0}

\* C14: within one call with a progress channel, the values reported never go
\* down, every one lies between 0.0 and 1.0, and every update carries the
\* calculator index the caller gave; the same holds of what the channel
\* delivers, whichever updates were dropped.
C14_ProgressMonotonicInRange ==
    /\ NonDecreasing(UpdatesOf(obs.updates))
    /\ NonDecreasing(Delivered)
    /\ \A k \in DOMAIN obs.updates :
        /\ obs.updates[k].update.Value >= 0
        /\ obs.updates[k].update.Value <= One
        /\ obs.updates[k].update.CalculatorIndex = harness.calcIndex
    /\ \A k \in DOMAIN Delivered :
        /\ Delivered[k].CalculatorIndex = harness.calcIndex
        /\ \E j \in DOMAIN obs.updates : obs.updates[j].update = Delivered[k]

\* Calculate past the lookup table has returned for a caller with index 1,
\* the fast-doubling engine having reported rising values below 1.0 of which
\* some were delivered and some dropped.
C14_Witness ==
    \E h \in Succeeded :
        /\ h.engine = "FastDoubling" /\ h.n > MaxFibUint64
        /\ harness.calcIndex = 1
        /\ Len(h.obs.updates) >= 4
        /\ h.obs.updates[1].update.Value > 0
        /\ h.obs.updates[1].update.Value < h.obs.updates[2].update.Value
        /\ \E j, k \in DOMAIN h.obs.updates :
              h.obs.updates[j].outcome = "sent" /\ h.obs.updates[k].outcome = "dropped"

\* C15, as claimed: after a successful Calculate with a progress channel, the
\* last update the consumer receives, once it has received all the channel
\* holds, has value 1.0.
C15_LastReceivedIsOne ==
    \A h \in Succeeded :
        (progressChan.buf = <<>> /\ display.received # <<>>) =>
            display.received[Len(display.received)].Value = One

\* C15, amended: after a successful Calculate with a progress channel, the
\* last update sent has value 1.0, and it is the last one the consumer receives
\* unless it was dropped because the channel could not accept it.
C15_LastSentIsOne ==
    \A h \in Succeeded :
        /\ h.obs.updates # <<>>
        /\ h.obs.updates[Len(h.obs.updates)].update.Value = One
        /\ h.obs.updates[Len(h.obs.updates)].outcome = "sent" =>
              /\ Delivered # <<>>
              /\ Delivered[Len(Delivered)].Value = One
        /\ h.obs.updates[Len(h.obs.updates)].outcome = "dropped" =>
              ~h.obs.updates[Len(h.obs.updates)].ready

\* Calculate has succeeded through the matrix engine, whose own last report
\* was below 1.0; the 1.0 of the facade was accepted and the consumer has
\* received it last.
C15_Witness ==
    \E h \in Succeeded :
        /\ h.engine = "MatrixExp" /\ h.n > MaxFibUint64
        /\ Len(h.obs.updates) >= 2
        /\ h.obs.updates[Len(h.obs.updates) - 1].update.Value < One
        /\ h.obs.updates[Len(h.obs.updates)].outcome = "sent"
        /\ progressChan.buf = <<>>
        /\ display.received[Len(display.received)].Value = One

\* C16, as claimed: a core that succeeds has itself reported 1.0 as its last
\* progress value, without the facade.
C16_CoreReportsOneLast ==
    \A h \in CoreSucceeded :
        /\ h.obs.updates # <<>>
        /\ h.obs.updates[Len(h.obs.updates)].update.Value = One

\* C17: reporting never blocks the calculation.  Every report returns at
\* once, the update sent when the channel can accept it (a receiver waiting, or
\* room in the buffer) and dropped otherwise (unbuffered with no receiver
\* waiting, or buffer full), and every call returns F(n), the result of the
\* call with a nil channel, whatever was received.
C17_ReportingNeverBlocks ==
    /\ \A k \in DOMAIN obs.updates :
        obs.updates[k].outcome = IF obs.updates[k].ready THEN "sent" ELSE "dropped"
    /\ \A h \in Returned : h.err = "nil" /\ h.ref # NilRef /\ h.val = simpleFib(h.n)

\* Calculate past the lookup table has returned F(n) although every update was
\* dropped and nothing was ever received.
C17_Witness ==
    \E h \in Succeeded :
        /\ h.n > MaxFibUint64
        /\ Len(h.obs.updates) >= 2
        /\ \A k \in DOMAIN h.obs.updates : h.obs.updates[k].outcome = "dropped"
        /\ display.received = <<>>
        /\ h.val = simpleFib(h.n)

(***************************************************************************)
(* Construction of calculators and the exit code of run.                   *)
(***************************************************************************)
RegistryKeys == {"fast", "matrix"}

\* C18: constructing a calculator with no underlying engine panics at
\* construction and yields no calculator: the registry is built exactly when
\* both engines are non-nil, it then holds a FibCalculator around each of the
\* engines given, no FibCalculator ever has a nil engine, and run never starts
\* after a panic.
C18_NilCorePanics ==
    app.phase # "none" =>
        /\ (app.phase = "panicked") <=> (\E key \in RegistryKeys : app.cores[key] = "nil")
        /\ app.phase = "panicked" =>
               /\ \A key \in RegistryKeys : app.registry[key] = NoCalculator
               /\ app.calcs = <<>> /\ pc = "idle" /\ held = <<>>
        /\ app.phase # "panicked" =>
               /\ app.registry.fast.kind = "FibCalculator"
               /\ app.registry.fast.core = app.cores.fast
               /\ ~app.injected =>
                      /\ app.registry.matrix.kind = "FibCalculator"
                      /\ app.registry.matrix.core = app.cores.matrix
        /\ \A key \in RegistryKeys :
               app.registry[key].kind = "FibCalculator" => app.registry[key].core \in Engines
        /\ pc # "idle" => call.engine \in Engines

C18_Witness ==
    /\ app.phase = "panicked"
    /\ app.cores.fast = "nil"
    /\ app.cores.matrix = "MatrixExp"
    /\ app.registry.matrix = NoCalculator

\* The error at the end of the chain of an error: what the calculation ended
\* with, whatever wraps it.
Cause(err) == err[Len(err)]

SingleRunDone == app.phase = "done" /\ Len(app.calcs) = 1

\* C19: run with a single algorithm returns 0 when the calculation succeeds,
\* 2 when it ends with context.DeadlineExceeded, 130 when it ends with
\* context.Canceled, and 1 for any other error; a calculation of the package
\* for n > 93 under a context that is cancelled already ends with
\* context.Canceled, so that run returns 130.
C19_SingleExitCode ==
    SingleRunDone =>
        LET res == app.results[1]
        IN  /\ res.Err = <<>> => app.exit = 0
            /\ (res.Err # <<>> /\ Cause(res.Err) = "DeadlineExceeded") => app.exit = 2
            /\ (res.Err # <<>> /\ Cause(res.Err) = "Canceled") => app.exit = 130
            /\ (res.Err # <<>> /\ Cause(res.Err) \notin CtxErrors) => app.exit = 1
            /\ (app.calcs[1].kind = "FibCalculator" /\ app.ctx0 = "Canceled"
                    /\ app.config.N > MaxFibUint64) =>
                   (res.Err = <<"Canceled">> /\ res.Result = NilRef /\ app.exit = 130)

C19_Witness ==
    /\ SingleRunDone
    /\ app.calcs[1].kind = "FibCalculator"
    /\ app.ctx0 = "Canceled"
    /\ app.config.N > MaxFibUint64
    /\ app.exit = 130

ComparisonDone == app.phase = "done" /\ Len(app.calcs) > 1

Successes == {k \in DOMAIN app.results : app.results[k].Err = <<>>}

Failures == DOMAIN app.results \ Successes

\* The exit code of an error, by what the calculation ended with.
ExitCodeOf(err) ==
    IF Cause(err) = "DeadlineExceeded" THEN 2
    ELSE IF Cause(err) = "Canceled" THEN 130
    ELSE 1

\* C20: in comparison mode run returns 3 if two successful calculators
\* returned different values; if every calculator failed, the exit code of
\* the first failure in the order the results are reported in (by duration:
\* no failure was shorter); and 0 otherwise - in particular when one
\* calculator fails and the successful results agree.
C20_ComparisonExitCode ==
    ComparisonDone =>
        IF \E j, k \in Successes :
               Deref(app.results[j].Result) # Deref(app.results[k].Result)
        THEN app.exit = 3
        ELSE IF Successes = {}
        THEN \E k \in Failures :
                /\ \A j \in Failures : app.results[k].Duration <= app.results[j].Duration
                /\ app.exit = ExitCodeOf(app.results[k].Err)
        ELSE app.exit = 0

C20_Witness ==
    /\ ComparisonDone
    /\ app.results[1].Err = <<>>
    /\ Deref(app.results[1].Result) = simpleFib(app.config.N)
    /\ app.results[2].Err = <<"simulated calculation error">>
    /\ app.exit = 0

(***************************************************************************)
(* The group of calculations of executeCalculations.                       *)
(***************************************************************************)
Running == app.phase \in {"executing", "done"}

\* The context of the run was ended from outside the group: it was done when
\* run was called, or the timeout or a signal ended it since.
EndedFromOutside == app.ctx0 # "nil" \/ app.triggered \/ obs.trigIter >= 0

\* A calculation of the run has ended with an error of its own, not with the
\* error of the context.
OwnFailure ==
    \E k \in DOMAIN app.results :
        app.results[k].Err # <<>> /\ Cause(app.results[k].Err) \notin CtxErrors

FDDest(t) == CASE t = "A" -> "t3" [] t = "B" -> "t1" [] t = "C" -> "t4"

MulDest(t) ==
    CASE t = "M1" -> "t1" [] t = "M2" -> "t2" [] t = "M3" -> "t3" [] t = "M4" -> "t4"
      [] t = "M5" -> "t5" [] t = "M6" -> "t6" [] t = "M7" -> "t7" [] t = "M8" -> "t8"

SquareDest(t) ==
    CASE t = "S1" -> "t1" [] t = "S2" -> "t2" [] t = "S3" -> "t3" [] t = "S4" -> "t4"

\* after differs from before in the location dest at most.
OnlyWrites(before, after, dest) ==
    \A f \in DOMAIN before \ {dest} : after[f] = before[f]

\* The state s with another value in its location f.
Overwritten(s, f) == [s EXCEPT ![f] = BigAdd(s[f], BigOfInt(1))]

\* C22: the multiplications dispatched in one step (looked at when they are
\* dispatched) write pairwise distinct destinations, each writes nothing but
\* its destination, and the product of a task is the same whatever another
\* task of the step has written to its own destination: no task reads a
\* location another task writes.
C22_TasksDoNotInterfere ==
    /\ (pc = "fd_wait" /\ pending = FDTasks) =>
           LET s == fdObj[loc.s]
           IN  \A t \in FDTasks :
                   /\ OnlyWrites(s, FDTask(s, t), FDDest(t))
                   /\ \A u \in FDTasks \ {t} :
                          /\ FDDest(u) # FDDest(t)
                          /\ FDTask(Overwritten(s, FDDest(u)), t)[FDDest(t)]
                                 = FDTask(s, t)[FDDest(t)]
    /\ (pc = "mx_mul_wait" /\ pending = MulTasks) =>
           LET ms == mxObj[loc.s]
               Task(x, t) == MulTask(x, loc.resultMatrix, loc.powerMatrix, t)
           IN  \A t \in MulTasks :
                   /\ OnlyWrites(ms, Task(ms, t), MulDest(t))
                   /\ \A u \in MulTasks \ {t} :
                          /\ MulDest(u) # MulDest(t)
                          /\ Task(Overwritten(ms, MulDest(u)), t)[MulDest(t)]
                                 = Task(ms, t)[MulDest(t)]
    /\ (pc = "mx_sq_wait" /\ pending = SquareTasks) =>
           LET ms == mxObj[loc.s]
               Task(x, t) == SquareTask(x, loc.powerMatrix, t)
           IN  \A t \in SquareTasks :
                   /\ OnlyWrites(ms, Task(ms, t), SquareDest(t))
                   /\ \A u \in SquareTasks \ {t} :
                          /\ SquareDest(u) # SquareDest(t)
                          /\ Task(Overwritten(ms, SquareDest(u)), t)[SquareDest(t)]
                                 = Task(ms, t)[SquareDest(t)]

C22_Witness ==
    /\ pc = "mx_mul_wait"
    /\ pending = MulTasks
    /\ loc.n > MaxFibUint64
    /\ loc.threshold = ParThreshold

\* The places where a core waits for the goroutines of a step: wg.Wait().
Waits == {"fd_wait", "mx_mul_wait", "mx_sq_wait"}

\* While tasks of a step have not finished, the core stays in the wait of that
\* step: nothing is assembled (the running pair and the matrices keep their
\* values), the iteration does not advance, and the state is not in its pool
\* and is not put there.
NotPastUnfinishedTasks ==
    pending # {} =>
        /\ pc \in Waits
        /\ pc' = pc
        /\ loc' = loc
        /\ pending' \subseteq pending
        /\ statePool' = statePool
        /\ matrixStatePool' = matrixStatePool
        /\ pc = "fd_wait" =>
               /\ loc.s \notin statePool
               /\ fdObj'[loc.s].f_k = fdObj[loc.s].f_k
               /\ fdObj'[loc.s].f_k1 = fdObj[loc.s].f_k1
        /\ pc # "fd_wait" =>
               /\ loc.s \notin matrixStatePool
               /\ \A m \in {"res", "p", "tempMatrix"} : mxObj'[loc.s][m] = mxObj[loc.s][m]

\* C23: all tasks dispatched in a step have finished before the products of
\* the step are assembled, before the next iteration starts and before the
\* state is released to the pool: no step of a core goes past unfinished tasks.
C23_TasksJoinedBeforeProceeding == [][NotPastUnfinishedTasks]_vars

C23_Witness ==
    /\ pc = "fd_top"
    /\ pending = {}
    /\ obs.fanouts >= 2
    /\ obs.muls = 3 * obs.fanouts
    /\ loc.i >= 0
    /\ loc.n > MaxFibUint64

\* C24 as stated: a fast-doubling step that fans out dispatches two products,
\* A = f_k * t and B = f_k1^2, to tasks and computes the third, C = f_k^2, on
\* the calling task: the tasks the step waits for are among A and B.
C24_TwoTasksAndLocalWork ==
    pc = "fd_wait" => pending \subseteq {"A", "B"}

\* The direct calls of the fast-doubling core for the indices 0, 1 and 2.
SmallFDCalls ==
    {h \in Returned : h.engine = "FastDoubling" /\ h.entry = "CalculateCore" /\ h.n <= 2}

\* C25 as stated: the fast-doubling engine answers n = 0, 1 and 2 with the
\* constants 0, 1 and 1 without acquiring a state from the pool.
C25_SmallWithoutPool ==
    \A h \in SmallFDCalls :
        /\ h.val = simpleFib(h.n)
        /\ h.obs.acquired = 0

(***************************************************************************)
(* The loops of the engines.                                               *)
(***************************************************************************)
\* The number formed by the bits of n above bit i: the bits the fast-doubling
\* loop has processed when it is about to process bit i.
BitsAbove(n, i) == n \div Pow2(i + 1)

\* The running pair of the state s is (F(k), F(k+1)).
PairIs(s, k) == s.f_k = simpleFib(k) /\ s.f_k1 = simpleFib(k + 1)

\* C26: when the fast-doubling loop has processed the most significant bits
\* of n down to bit i + 1, (f_k, f_k1) = (F(k), F(k+1)) for the number k those
\* bits form; the doubling step of the iteration takes the pair to
\* (F(2k), F(2k+1)), and the conditional step then advances it by one index
\* exactly when bit i of n is 1.
C26_FastDoublingInvariant ==
    /\ pc = "fd_top" => PairIs(fdObj[loc.s], BitsAbove(loc.n, loc.i))
    /\ pc = "fd_body" =>
           LET k == BitsAbove(loc.n, loc.i)
               doubled == FDAssemble(FDSequentialMuls(FDCommonTerm(fdObj[loc.s])))
           IN  /\ PairIs(fdObj[loc.s], k)
               /\ PairIs(doubled, 2 * k)
               /\ PairIs(FDAddStep(doubled, loc.n, loc.i), 2 * k + BitAt(loc.n, loc.i))
    /\ (pc = "fd_wait" /\ pending = {}) =>
           PairIs(FDAssemble(fdObj[loc.s]), 2 * BitsAbove(loc.n, loc.i))

C26_Witness ==
    /\ pc = "fd_top"
    /\ loc.n > MaxFibUint64
    /\ loc.i = 2
    /\ BitAt(loc.n, 3) = 1
    /\ obs.fanouts > 0
    /\ PairIs(fdObj[loc.s], loc.n \div 8)

\* Q^m for Q = [[1, 1], [1, 0]]: the identity for m = 0, and
\* [[F(m+1), F(m)], [F(m), F(m-1)]] otherwise.
QPow(m) ==
    IF m = 0
    THEN [a |-> BigOfInt(1), b |-> BigOfInt(0), c |-> BigOfInt(0), d |-> BigOfInt(1)]
    ELSE [a |-> simpleFib(m + 1), b |-> simpleFib(m), c |-> simpleFib(m),
          d |-> simpleFib(m - 1)]

\* C27: at the top of iteration i of the matrix loop, power = Q^(2^i) and
\* result = Q^(e mod 2^i) for e = n - 1; after the loop result = Q^(n-1), and
\* its top-left element is F(n).
C27_MatrixInvariant ==
    pc = "mx_top" =>
        LET ms == mxObj[loc.s]
        IN  IF loc.i < loc.numBits
            THEN /\ ms[loc.powerMatrix] = QPow(Pow2(loc.i))
                 /\ ms[loc.resultMatrix] = QPow(loc.exponent % Pow2(loc.i))
            ELSE /\ loc.exponent = loc.n - 1
                 /\ ms[loc.resultMatrix] = QPow(loc.n - 1)
                 /\ ms[loc.resultMatrix].a = simpleFib(loc.n)

C27_Witness ==
    /\ pc = "mx_top"
    /\ loc.n > MaxFibUint64
    /\ loc.i = loc.numBits - 1
    /\ obs.fanouts > 0
    /\ mxObj[loc.s][loc.powerMatrix] = QPow(Pow2(loc.i))
    /\ mxObj[loc.s][loc.resultMatrix] = QPow(loc.exponent % Pow2(loc.i))
    /\ loc.exponent % Pow2(loc.i) > 1

\* element [0,1] equals element [1,0]
Symmetric(m) == m.b = m.c

\* The core is about to call squareSymmetricMatrix(tempMatrix, powerMatrix, ...).
AboutToSquare ==
    /\ pc = "mx_square" \/ (pc = "mx_body" /\ BitAt(loc.exponent, loc.i) = 0)
    /\ loc.i < loc.numBits - 1

\* The matrix squareSymmetricMatrix(dest, mat, ...) leaves in dest, run on the
\* state ms.
SquareResult(ms, mat, dest) ==
    SquareAssemble(SquareSequential(SquarePrepare(ms, mat), mat), dest)[dest]

\* C28: the power matrix is symmetric every time it is passed to
\* squareSymmetricMatrix, and what squareSymmetricMatrix produces is symmetric
\* (also from a matrix that is not): the power matrix is symmetric throughout.
C28_PowerStaysSymmetric ==
    /\ pc \in {"mx_top", "mx_body", "mx_mul_wait", "mx_square", "mx_sq_wait"} =>
           Symmetric(mxObj[loc.s][loc.powerMatrix])
    /\ AboutToSquare =>
           LET ms == mxObj[loc.s]
               skewed == [ms EXCEPT ![loc.powerMatrix].c = BigAdd(@, BigOfInt(1))]
           IN  /\ Symmetric(SquareResult(ms, loc.powerMatrix, loc.tempMatrix))
               /\ ~Symmetric(skewed[loc.powerMatrix])
               /\ Symmetric(SquareResult(skewed, loc.powerMatrix, loc.tempMatrix))
    /\ (pc = "mx_sq_wait" /\ pending = {}) =>
           Symmetric(SquareAssemble(mxObj[loc.s], loc.tempMatrix)[loc.tempMatrix])

C28_Witness ==
    /\ pc = "mx_sq_wait"
    /\ pending = {}
    /\ loc.n > MaxFibUint64
    /\ loc.i = loc.numBits - 2
    /\ Symmetric(mxObj[loc.s][loc.powerMatrix])
    /\ mxObj[loc.s][loc.powerMatrix].b # mxObj[loc.s][loc.powerMatrix].d

\* matrix_test.go, matrixEqual: the four elements compare equal
matrixEqual(m1, m2) ==
    /\ BigCmp(m1.a, m2.a) = 0
    /\ BigCmp(m1.b, m2.b) = 0
    /\ BigCmp(m1.c, m2.c) = 0
    /\ BigCmp(m1.d, m2.d) = 0

\* C29: for every symmetric matrix m with non-negative entries, the matrix that
\* squareSymmetricMatrix(got, m, ...) leaves in got, after 4 products, equals
\* the matrix that multiplyMatrices(want, m, m, ...) leaves in want, after 8
\* products, whichever of the two runs its products sequentially or in
\* goroutines, and in whatever order the goroutines run; m itself is not
\* changed.
C29_SquareEqualsMultiply ==
    /\ pc = "test_squared" => obs.muls = 4
    /\ pc = "test_done" =>
          /\ matrixEqual(mxObj[loc.s].tempMatrix, mxObj[loc.s].res)
          /\ obs.muls = 12
          /\ mxObj[loc.s].p \in SymmetricMatrices

\* A squaring in goroutines and a product run sequentially, or the reverse,
\* of a matrix with no zero entry and a # d.
C29_Witness ==
    /\ pc = "test_done"
    /\ obs.fanouts = 1
    /\ BigCmp(mxObj[loc.s].p.a, BigOfInt(MaxEntry)) = 0
    /\ BigCmp(mxObj[loc.s].p.b, BigOfInt(2)) = 0
    /\ BigCmp(mxObj[loc.s].p.d, BigOfInt(1)) = 0
    /\ matrixEqual(mxObj[loc.s].tempMatrix, mxObj[loc.s].res)

\* The bit length of the largest element of a matrix.
MatrixBitLen(m) ==
    Max2(Max2(BigBitLen(m.a), BigBitLen(m.b)), Max2(BigBitLen(m.c), BigBitLen(m.d)))

\* The bit length of the dominant operand of a product: the larger of the two.
DominantBitLen(m1, m2) == Max2(MatrixBitLen(m1), MatrixBitLen(m2))

\* A step of the matrix core that calls multiplyMatrices, or
\* squareSymmetricMatrix.
MultiplyCalled ==
    /\ pc = "mx_body"
    /\ BitAt(loc.exponent, loc.i) = 1
    /\ pc' \in {"mx_mul_wait", "mx_square"}

SquareCalled ==
    /\ \/ pc = "mx_square"
       \/ pc = "mx_body" /\ BitAt(loc.exponent, loc.i) = 0
    /\ loc.i < loc.numBits - 1
    /\ pc' \in {"mx_sq_wait", "mx_top"}

FansOutOnDominantOperand ==
    /\ MultiplyCalled =>
          (pc' = "mx_mul_wait" <=>
              /\ numCPU > 1
              /\ DominantBitLen(mxObj[loc.s][loc.resultMatrix],
                                mxObj[loc.s][loc.powerMatrix]) > loc.threshold)
    /\ SquareCalled =>
          (pc' = "mx_sq_wait" <=>
              /\ numCPU > 1
              /\ MatrixBitLen(mxObj[loc.s][loc.powerMatrix]) > loc.threshold)

\* C30 as stated: a product or squaring of matrices hands its products to
\* concurrent tasks when the bit length of its largest operand exceeds the
\* threshold and there is more than one processor, and otherwise runs them
\* sequentially on the calling task.
C30_FansOutOnDominantOperand == [][FansOutOnDominantOperand]_vars

\* The direct calls of a core that returned.
CoreCalls == {h \in Returned : h.entry = "CalculateCore"}

\* for i := numBits - 1; i >= 0; i-- / for i := 0; i < numBits; i++
Iterations(engine, n) ==
    IF engine = "FastDoubling" THEN Len64(n)
    ELSE IF n = 0 THEN 0 ELSE Len64(n - 1)

\* A core that returned ran the iterations of its loop, all of them.
AllIterationsRun ==
    \A h \in CoreCalls :
        /\ h.err = "nil"
        /\ h.obs.iter = Iterations(h.engine, h.n)

\* A step that ends an iteration: the loop variable moves.
IterationEnds == pc \in {"fd_body", "fd_wait", "mx_body", "mx_square", "mx_sq_wait"} /\ loc'.i # loc.i

\* An iteration ends with no task of it left, the loop variable moves by one
\* and the next iteration starts at the top of the loop; the matrix loop has
\* replaced the power matrix by its square, except in the last iteration,
\* where it is left as it is.
OneAfterAnother ==
    IterationEnds =>
        /\ pending = {} /\ pending' = {}
        /\ pc' = IF call.engine = "FastDoubling" THEN "fd_top" ELSE "mx_top"
        /\ loc'.i = IF call.engine = "FastDoubling" THEN loc.i - 1 ELSE loc.i + 1
        /\ call.engine = "MatrixExp" =>
              IF loc.i < loc.numBits - 1
              THEN /\ loc'.powerMatrix = loc.tempMatrix
                   /\ mxObj'[loc.s][loc'.powerMatrix] = QPow(Pow2(loc.i + 1))
              ELSE /\ loc'.powerMatrix = loc.powerMatrix
                   /\ mxObj'[loc.s][loc.powerMatrix] = mxObj[loc.s][loc.powerMatrix]
                   /\ mxObj'[loc.s][loc.powerMatrix] = QPow(Pow2(loc.i))

\* C31: with a context that is never done, the fast-doubling loop runs
\* bitlen(n) iterations and the matrix loop bitlen(n - 1) (none for n = 0,
\* which returns before the loop), one iteration at a time, each started after
\* the one before has ended with all its tasks; the matrix loop squares the
\* power matrix in every iteration but the last; and every call returns.
C31_LoopRunsBitLenIterations ==
    /\ []AllIterationsRun
    /\ [][OneAfterAnother]_vars
    /\ (pc = "core_entry") ~> (pc = "idle" /\ CoreCalls # {})

\* A matrix call past the lookup table has returned after bitlen(n - 1)
\* iterations, some of them fanned out.
C31_Witness ==
    \E h \in CoreCalls :
        /\ h.engine = "MatrixExp"
        /\ h.n = MaxFibUint64 + 1
        /\ h.obs.iter = Len64(MaxFibUint64)
        /\ h.obs.fanouts > 0
        /\ h.val = simpleFib(h.n)

\* The goroutines of the calculators that have returned to the group.
ReturnedWorkers == {i \in DOMAIN workers : workers[i].phase = "returned"}

\* C32: the progress channel of executeCalculations is closed once, after
\* every calculator goroutine has returned: no calculator sends on a closed
\* channel (which would panic), and the channel is closed when
\* executeCalculations returns.
C32_ClosedOnceAfterProducers ==
    /\ app.closes <= 1
    /\ progressChan.closed <=> app.closes = 1
    /\ progressChan.closed => ReturnedWorkers = DOMAIN workers
    /\ ~app.panicked
    /\ \A i \in DOMAIN workers : workers[i].phase # "panicked"
    /\ app.main = "returned" => progressChan.closed

\* A run of two calculators has returned: both have reported, the channel is
\* closed.
C32_Witness ==
    /\ app.main = "returned"
    /\ Len(workers) = 2
    /\ app.closes = 1
    /\ display.progresses[0] = One
    /\ display.progresses[1] = One

\* results[idx] was written once, by the goroutine of calculator idx.
WrittenOnceByOwner(idx) == app.results[idx + 1] = <<idx>>

\* No slot is written twice, or by the goroutine of another calculator.
SlotsOwned ==
    \A k \in DOMAIN app.results :
        /\ Len(app.results[k]) <= 1
        /\ \A j \in DOMAIN app.results[k] : app.results[k][j] = k - 1

\* C33: executeCalculations terminates, with no calculator, one or two, and
\* whenever the consumer takes its steps: no calculator goroutine ever waits
\* in a send, the consumer ends once the channel is closed, and when
\* executeCalculations returns every results[idx] has been written exactly
\* once, by the goroutine of calculator idx.
C33_ExecuteCalculationsTerminates ==
    /\ [](\A i \in DOMAIN workers : ~workers[i].waited)
    /\ []SlotsOwned
    /\ [](app.main = "returned" =>
             /\ display.done
             /\ \A i \in DOMAIN workers : WrittenOnceByOwner(i - 1))
    /\ (app.main = "g_wait") ~> (app.main = "returned")
    /\ progressChan.closed ~> display.done

\* A run of one calculator has returned, its last reports dropped by a full
\* channel: the consumer was slower than the calculator, which was not
\* cancelled.
C33_Witness ==
    /\ app.main = "returned"
    /\ Len(workers) = 1
    /\ workers[1].n = LongIndex
    /\ workers[1].err = "nil"
    /\ WrittenOnceByOwner(0)
    /\ display.progresses[0] < One

RECURSIVE LastSent(_, _, _)
\* The value of the last of the first k updates sent for calculator index,
\* 0 when there is none.
LastSent(sent, k, index) ==
    IF k = 0 THEN 0
    ELSE IF sent[k].CalculatorIndex = index THEN sent[k].Value
    ELSE LastSent(sent, k - 1, index)

RECURSIVE SumLastSent(_, _)
SumLastSent(sent, index) ==
    IF index < 0 THEN 0 ELSE LastSent(sent, Len(sent), index) + SumLastSent(sent, index - 1)

\* The average of the last values sent, over numCalculators > 0 calculators.
AverageLastSent(sent, numCalculators) ==
    (2 * SumLastSent(sent, numCalculators - 1) + numCalculators) \div (2 * numCalculators)

\* The final bars among the lines printed.
FinalBars == {k \in DOMAIN display.printed : display.printed[k].final}

\* The consumer has returned after one final bar, the last line printed,
\* which shows the average of the last value sent for each calculator.
OneFinalBar ==
    /\ FinalBars = {Len(display.printed)}
    /\ display.printed # <<>>
    /\ display.printed[Len(display.printed)].avg =
           AverageLastSent(held, display.numCalculators)

NothingAfterDone == display.done => display' = display /\ progressChan' = progressChan

C35_FastPathIgnoresCancellation ==
    \A h \in Returned :
        h.entry = "Calculate" /\ h.n <= MaxFibUint64 =>
            /\ h.err = "nil"
            /\ h.ref # NilRef
            /\ h.val = simpleFib(h.n)
            /\ h.core = NoRet
            /\ h.obs.coreCalls = 0
            /\ h.obs.iter = 0

\* Calculate has returned F(93) and no error under a context that was
\* cancelled before the call.
C35_Witness ==
    \E h \in Returned :
        /\ h.entry = "Calculate"
        /\ h.n = MaxFibUint64
        /\ h.ctx0 = "Canceled"
        /\ h.ctx = "Canceled"
        /\ h.err = "nil"
        /\ h.ref # NilRef
        /\ h.val = simpleFib(MaxFibUint64)

(***************************************************************************)
(* Properties of a calculation on a recycled state (SpecScratch).          *)
(***************************************************************************)
\* A calculationState with its temporaries t1..t4 as New builds them.
ScrubbedState(s) ==
    [s EXCEPT !.t1 = BigZero, !.t2 = BigZero, !.t3 = BigZero, !.t4 = BigZero]

\* A matrixState with its temporaries t1..t8 and the matrix temp as New builds
\* them.
ScrubbedMatrixState(ms, temp) ==
    [ms EXCEPT !.t1 = BigZero, !.t2 = BigZero, !.t3 = BigZero, !.t4 = BigZero,
               !.t5 = BigZero, !.t6 = BigZero, !.t7 = BigZero, !.t8 = BigZero,
               ![temp] = NewMatrix]

\* The rest of the loop of the running call, from the top of an iteration,
\* gives the same f_k and f_k1 (the same result and power matrices) on the
\* state as it is and on the state with its temporaries scrubbed.
ScratchNotRead ==
    /\ pc = "fd_top" =>
          LET r1 == FDSequentialLoop(fdObj[loc.s], loc.n, loc.i)
              r2 == FDSequentialLoop(ScrubbedState(fdObj[loc.s]), loc.n, loc.i)
          IN  r1.f_k = r2.f_k /\ r1.f_k1 = r2.f_k1
    /\ pc = "mx_top" =>
          LET st == [ms |-> mxObj[loc.s], resultMatrix |-> loc.resultMatrix,
                     powerMatrix |-> loc.powerMatrix, tempMatrix |-> loc.tempMatrix]
              r1 == MXSequentialLoop(st, loc.exponent, loc.numBits, loc.i)
              r2 == MXSequentialLoop(
                        [st EXCEPT !.ms = ScrubbedMatrixState(st.ms, loc.tempMatrix)],
                        loc.exponent, loc.numBits, loc.i)
          IN  /\ r1.resultMatrix = r2.resultMatrix
              /\ r1.powerMatrix = r2.powerMatrix
              /\ r1.ms[r1.resultMatrix] = r2.ms[r2.resultMatrix]
              /\ r1.ms[r1.powerMatrix] = r2.ms[r2.powerMatrix]

\* C36: the value a calculation returns does not depend on what an earlier
\* calculation left in the temporaries of the state it takes from the pool:
\* it is F(n) on a new state and on a recycled one, two calls of the same
\* engine for the same n return the same value, and from the top of every
\* iteration the loop gives the same result on the state with its
\* temporaries scrubbed (each temporary is written before it is read).
C36_ScratchDoesNotMatter ==
    /\ \A h \in Returned : h.err = "nil" /\ h.val = simpleFib(h.n)
    /\ \A h1, h2 \in Returned :
          h1.engine = h2.engine /\ h1.n = h2.n => h1.val = h2.val
    /\ ScratchNotRead

\* Two matrix calculations of the first index past the lookup table ran one
\* after the other on the same state, the first on it as New built it and the
\* second on it as the first, with another index, could not have left it:
\* fanned out, each returned F(n).
C36_Witness ==
    /\ Len(held) = 2
    /\ pc = "idle"
    /\ Len(mxObj) = 1
    /\ held[1].engine = "MatrixExp" /\ held[2].engine = "MatrixExp"
    /\ held[1].n = MaxFibUint64 + 1 /\ held[2].n = MaxFibUint64 + 1
    /\ held[2].obs.fanouts > 0
    /\ held[2].val = held[1].val
    /\ held[2].val = simpleFib(MaxFibUint64 + 1)
    /\ mxObj[1].t8 # BigZero
    /\ mxObj[1].tempMatrix # NewMatrix

(***************************************************************************)
(* Properties of the initialization of the lookup table (SpecFast).        *)
(***************************************************************************)
\* The look-ahead b of init() after the pass that stored entry i: a + b in
\* uint64, a being entry i and b entry i + 1.
LookAhead(i) == Uint64Add(fibLookupTable[i].abs, fibLookupTable[i + 1].abs)

\* The same sum without the 64-bit wrap.
ExactSum(i) == NatAdd(fibLookupTable[i].abs, fibLookupTable[i + 1].abs)

\* C37: every entry i of the lookup table, 0..93, is the exact F(i), a
\* non-negative number of at most 64 bits, with the values
\* TestFibLookupTableInitialization expects; every uint64 sum of init() that
\* gets stored (entries 2..93) is exact, and the look-ahead computed in the
\* pass of entry 92, F(94), is past 64 bits and wraps: it is never stored.
\* Calculate returns these entries for n <= 93.
C37_TableExact ==
    /\ \A i \in 0..MaxFibUint64 :
          /\ fibLookupTable[i] = simpleFib(i)
          /\ ~fibLookupTable[i].neg
          /\ BigBitLen(fibLookupTable[i]) <= 64
    /\ \A i \in 0..(MaxFibUint64 - 2) :
          /\ LookAhead(i) = ExactSum(i)
          /\ fibLookupTable[i + 2].abs = LookAhead(i)
    /\ NatBitLen(ExactSum(MaxFibUint64 - 1)) > 64
    /\ LookAhead(MaxFibUint64 - 1) # ExactSum(MaxFibUint64 - 1)
    /\ ExactSum(MaxFibUint64 - 1) = simpleFib(MaxFibUint64 + 1).abs
    /\ fibLookupTable[0] = BigOfInt(0)
    /\ fibLookupTable[1] = BigOfInt(1)
    /\ fibLookupTable[2] = BigOfInt(1)
    /\ fibLookupTable[10] = BigOfInt(55)
    /\ fibLookupTable[20] = BigOfInt(6765)
    \* 12200160415121876738 in limbs of LimbBits bits, lowest first
    /\ fibLookupTable[MaxFibUint64] = MkInt(FALSE, <<9986, 17470, 13576, 19069, 10>>)
    /\ \A h \in Returned :
          h.n <= MaxFibUint64 => h.val = fibLookupTable[h.n] /\ BigBitLen(h.val) <= 64

\* Calculate, under a live context, returned the last entry:
\* 12200160415121876738, a number of 64 bits.
C37_Witness ==
    \E h \in Returned :
        /\ h.entry = "Calculate"
        /\ h.n = MaxFibUint64
        /\ h.ctx0 = "nil"
        /\ h.val = MkInt(FALSE, <<9986, 17470, 13576, 19069, 10>>)
        /\ h.val = fibLookupTable[MaxFibUint64]
        /\ BigBitLen(h.val) = 64

(***************************************************************************)
(* Signs of the integers of the states (SpecSteps).                        *)
(***************************************************************************)
\* x.Sign() >= 0
NonNegative(x) == ~x.neg

\* The integers of a calculationState
StateInts(s) == {s.f_k, s.f_k1, s.t1, s.t2, s.t3, s.t4}

\* The integers of a matrixState: the entries of its three matrices and its
\* eight temporaries
MatrixStateInts(ms) ==
    {ms[m][e] : m \in {"res", "p", "tempMatrix"}, e \in {"a", "b", "c", "d"}}
        \cup {ms.t1, ms.t2, ms.t3, ms.t4, ms.t5, ms.t6, ms.t7, ms.t8}

\* C38: in every fast-doubling step the common term 2*f_k1 - f_k is
\* non-negative (f_k is at most 2*f_k1 when the step starts, and t2 holds a
\* non-negative term after it), and every integer of a calculationState and
\* of a matrixState is non-negative in every state of a calculation of
\* either engine, also between the goroutines of a fanned-out step.
C38_IntegersStayNonNegative ==
    /\ \A id \in DOMAIN fdObj : \A x \in StateInts(fdObj[id]) : NonNegative(x)
    /\ \A id \in DOMAIN mxObj : \A x \in MatrixStateInts(mxObj[id]) : NonNegative(x)
    /\ pc = "fd_body" =>
          LET s == fdObj[loc.s]
          IN  /\ BigCmp(BigLsh1(s.f_k1), s.f_k) >= 0
              /\ NonNegative(FDCommonTerm(s).t2)
    /\ pc = "fd_wait" =>
          LET s == fdObj[loc.s]
          IN  s.t2 = BigSub(BigLsh1(s.f_k1), s.f_k) /\ NonNegative(s.t2)

\* The goroutines of a fast-doubling step of the calculation of F(SparseIndex)
\* are running on a common term 2*f_k1 - f_k that is positive and smaller
\* than 2*f_k1, f_k being positive.
C38_Witness ==
    /\ pc = "fd_wait"
    /\ call.engine = "FastDoubling"
    /\ call.n = SparseIndex
    /\ pending # FDTasks
    /\ pending # {}
    /\ BigCmp(fdObj[loc.s].f_k, BigZero) > 0
    /\ BigCmp(fdObj[loc.s].t2, BigZero) > 0
    /\ BigCmp(fdObj[loc.s].t2, BigLsh1(fdObj[loc.s].f_k1)) < 0

(***************************************************************************)
(* The three matrices of the matrix loop (SpecScratch).                    *)
(***************************************************************************)
\* CalculateCore of the matrix engine holds a state.
MXRunning == pc \in {"mx_top", "mx_body", "mx_mul_wait", "mx_square", "mx_sq_wait"}

\* The matrices of a matrixState, named by the fields that hold them.
StateMatrices == {"res", "p", "tempMatrix"}

\* C39: while the matrix loop runs, resultMatrix, powerMatrix and tempMatrix
\* are three different matrices of the acquired state, the three it has: the
\* destination of a product (tempMatrix) is neither of its operands
\* (resultMatrix, powerMatrix), the destination of a squaring (tempMatrix) is
\* not its operand (powerMatrix).  A call starts with them bound to the
\* state's res, p and tempMatrix, whatever the call that used the state
\* before had made of its own references.
C39_ThreeDistinctMatrices ==
    /\ MXRunning =>
          /\ loc.resultMatrix # loc.powerMatrix
          /\ loc.resultMatrix # loc.tempMatrix
          /\ loc.powerMatrix # loc.tempMatrix
          /\ {loc.resultMatrix, loc.powerMatrix, loc.tempMatrix} = StateMatrices
          /\ loc.s \in DOMAIN mxObj
          /\ loc.s \notin matrixStatePool
    /\ pc = "mx_top" /\ loc.i = 0 =>
          /\ loc.resultMatrix = "res"
          /\ loc.powerMatrix = "p"
          /\ loc.tempMatrix = "tempMatrix"
    /\ \A id \in matrixStatePool :
          /\ id \in DOMAIN mxObj
          /\ StateMatrices \subseteq DOMAIN mxObj[id]

\* A second matrix calculation runs on the state the first released: the
\* goroutines of a product are writing its temporaries, the destination of
\* the product is the matrix of the field res, the result so far is in the
\* matrix of the field tempMatrix.
C39_Witness ==
    /\ pc = "mx_mul_wait"
    /\ Len(held) = 1
    /\ held[1].engine = "MatrixExp"
    /\ Len(mxObj) = 1
    /\ loc.s = 1
    /\ pending # {}
    /\ pending # MulTasks
    /\ loc.tempMatrix = "res"
    /\ loc.resultMatrix = "tempMatrix"

====
